---------------------------- MODULE Spec2Model ----------------------------
(***************************************************************************)
(* Verification model of the zai-2api gateway.                             *)
(*                                                                         *)
(*   SpecPool   the account pool (app/core/db_manager.py): the accounts    *)
(*              table, the round-robin cursor and every DBManager          *)
(*              operation on accounts, each one atomic under _db_lock.     *)
(*   SpecFair   the same pool, with the ids round_robin returned since the  *)
(*              table last changed kept in hist.                           *)
(*   SpecConc   get_next_account("round_robin") split at its statements    *)
(*              and run by several threads that contend for _db_lock.      *)
(*   SpecRetry  ZaiProvider._request_with_retry (app/providers/            *)
(*              zai_provider.py) against a scripted upstream.              *)
(*   SpecChat   ZaiProvider.chat_completion: create request, stream        *)
(*              request and the line loop of _stream_completion.           *)
(*   SpecCancel the same with a caller that goes away mid-stream.          *)
(*   SpecDispatch  the two endpoints of main.py handling one request.      *)
(*   SpecMixed  the pool calls of both endpoints, request after request.   *)
(*   SpecExtract   ZaiProvider._extract_content on one payload.            *)
(*   SpecAnth   anthropic_stream_generator over chat_completion.           *)
(*   SpecStamps the pool with its timestamp columns.                       *)
(*   SpecLimit  RateLimiter.is_allowed (app/core/rate_limit.py).           *)
(*   SpecClient HTTPClientManager (app/core/http_client.py).               *)
(***************************************************************************)
EXTENDS Integers, Sequences, FiniteSets, TLC

(***************************************************************************)
(* Bounds of the model.                                                    *)
(***************************************************************************)
MaxId == 3          \* ids the AUTOINCREMENT sequence may hand out
MaxCalls == 1       \* cap of total_calls
MaxHist == 4        \* round-robin selections recorded between two mutations
NumThreads == 2     \* threads calling get_next_account concurrently
MaxRetriesIn == 3   \* largest max_retries passed to ZaiProvider(...)
MaxDelayIn == 2     \* largest retry_delay passed to ZaiProvider(...)
MaxLines == 3       \* lines read from one upstream stream body
MaxAccounts == 4    \* rows in the pool when a request is dispatched
MaxRows == 2        \* rows created while the timestamp columns are followed
MaxClock == 4       \* largest value datetime.now() gives, in hours
MaxLimit == 2       \* largest RateLimiter.requests
MaxWindow == 2      \* largest RateLimiter.window, in seconds
MaxTime == 2        \* largest value time.time() gives, in seconds
MaxClients == 3     \* httpx.AsyncClient objects built in one run

(***************************************************************************)
(* Values.                                                                 *)
(***************************************************************************)
None == 0                         \* Python None where an id is expected
NoRow == [id |-> 0, token |-> "", data_dir |-> "", is_active |-> 0, total_calls |-> 0]
Tokens == {"tokA", "tokB"}
DataDirs == {"NULL", "dir1"}      \* data_dir values; "NULL" is SQL NULL
Strategies == {"round_robin", "random", "least_used"}
Ids == 1..MaxId
Threads == 1..NumThreads
NoThread == 0
HTTP_MAX_RETRIES == 3
HTTP_RETRY_DELAY == 1
Response(status) == [exc |-> "none", status |-> status]
Exception(name) == [exc |-> name, status |-> 0]
NoResp == Response(0)
\* what one request can end in: a response, or an httpx exception
Outcomes == {Response(200), Response(401), Response(404), Response(500), Response(502),
             Exception("ConnectError"), Exception("ReadTimeout"),
             Exception("ConnectTimeout")}

VARIABLES
    accounts,               \* the rows of table accounts
    next_id,                \* next value of the AUTOINCREMENT sequence
    last_used_account_id,   \* DBManager._last_used_account_id
    db_lock,                \* holder of DBManager._db_lock, or NoThread
    last_call,              \* the last completed DBManager call (history)
    hist,                   \* ids returned by round_robin since the last mutation (history)
    th_pc, th_cursor, th_row,   \* per thread: position, cursor value read, row fetched
    th_expect, seq_cursor,      \* what the calls give when run one after another in lock order (history)
    max_retries, retry_delay,   \* ZaiProvider.max_retries, ZaiProvider.retry_delay
    upstream,               \* what the upstream answers to the next request
    seen,                   \* the outcomes of the requests issued, in order
    attempt,                \* loop variable of _request_with_retry
    rq_pc,                  \* position in _request_with_retry
    requests,               \* number of requests issued
    sleeps,                 \* the backoff delays slept, in order
    last_error,             \* local last_error
    resp,                   \* the response returned, or "none"
    raised,                 \* the exception raised, or "none"
    cc_pc,                  \* position in ZaiProvider.chat_completion
    cc_token, cc_messages,  \* its arguments: the token, the shape of the messages list
    create_status,          \* status of the response _create_chat got, 0 before
    create_requests,        \* requests the create phase issued
    chat_id,                \* what _create_chat returned ("" for None or "")
    stream_requests,        \* requests the stream phase issued
    stream_status,          \* status of the streamed response, 0 before
    lines,                  \* the lines read from the streamed response, in order
    cc_error,               \* the exception chat_completion caught, or "none"
    out,                    \* what chat_completion has yielded, in order
    endpoint,               \* which endpoint handles the request, "none" without one
    d_pc,                   \* position of the endpoint's handler
    d_attempt,              \* credentials the handler has gone through so far
    d_list,                 \* the rows anthropic_messages read at its start
    d_account,              \* the row the handler holds, NoRow without one
    tried,                  \* ids of the credentials handed to chat_completion, in order
    logs,                   \* the log entries written, in order
    http_status,            \* status of the response to the caller, 0 before
    events,                 \* the events anthropic_stream_generator has yielded
    output_tokens,          \* its output_tokens
    full_content,           \* the text collected from the chunks (full_content)
    ex_pc,                  \* "input" before _extract_content is applied, "done" after
    ex_payload,             \* the payload it is applied to
    ex_content,             \* what it returned
    ex_effect,              \* what the line loop did with a line carrying the payload
    clock,                  \* the last value datetime.now() gave, in hours, 0 before any
    cols,                   \* per id: columns expires_at, last_refresh_at, last_used_at (0 is NULL)
    new_token,              \* per id: the token the last update_token stored, "" without one (history)
    rl_requests, rl_window, \* RateLimiter.requests, RateLimiter.window
    rl_now,                 \* the last value time.time() gave, in seconds
    rl_store,               \* RateLimiter._requests: per key the timestamps kept
    rl_admitted,            \* per key the times of all admitted calls (history)
    rl_last,                \* the last is_allowed call: key, result, _requests before it (history)
    hc_client,              \* HTTPClientManager._client: a client, or NoClient
    hc_open,                \* the clients created and not closed
    hc_made,                \* number of clients created so far
    hc_closing,             \* the client a close() call is waiting on in aclose(), or NoClient
    hc_held,                \* per dispatch: the client get_client returned to it, or NoClient
    hc_last                 \* the last HTTPClientManager call: which, the client returned or closed, whether built (history)

poolVars == <<accounts, next_id, last_used_account_id, db_lock, last_call>>
concVars == <<th_pc, th_cursor, th_row, th_expect, seq_cursor>>
retryVars == <<max_retries, retry_delay, upstream, seen, attempt, rq_pc, requests, sleeps, last_error, resp, raised>>
chatVars == <<cc_pc, cc_token, cc_messages, create_status, create_requests, chat_id,
              stream_requests, stream_status, lines, cc_error, out>>
dispVars == <<endpoint, d_pc, d_attempt, d_list, d_account, tried, logs, http_status>>
anthVars == <<events, output_tokens, full_content>>
extractVars == <<ex_pc, ex_payload, ex_content, ex_effect>>
stampVars == <<clock, cols, new_token>>
limitVars == <<rl_requests, rl_window, rl_now, rl_store, rl_admitted, rl_last>>
clientVars == <<hc_client, hc_open, hc_made, hc_closing, hc_held, hc_last>>
sideVars == <<stampVars, limitVars, clientVars>>
vars == <<accounts, next_id, last_used_account_id, db_lock, last_call, hist,
          th_pc, th_cursor, th_row, th_expect, seq_cursor,
          max_retries, retry_delay, upstream, seen, attempt, rq_pc, requests, sleeps, last_error, resp, raised,
          cc_pc, cc_token, cc_messages, create_status, create_requests, chat_id,
          stream_requests, stream_status, lines, cc_error, out,
          endpoint, d_pc, d_attempt, d_list, d_account, tried, logs, http_status,
          events, output_tokens, full_content, ex_pc, ex_payload, ex_content, ex_effect,
          clock, cols, new_token,
          rl_requests, rl_window, rl_now, rl_store, rl_admitted, rl_last,
          hc_client, hc_open, hc_made, hc_closing, hc_held, hc_last>>

(***************************************************************************)
(* The accounts table and its queries.                                     *)
(***************************************************************************)
NewRow(id, token, data_dir) ==
    [id |-> id, token |-> token, data_dir |-> data_dir, is_active |-> 1, total_calls |-> 0]

\* Variant: the WHERE is_active = 1 clause left out.
ActiveRowsUnfiltered(rows) == rows

\* WHERE is_active = 1
ActiveRows(rows) == {r \in rows : r.is_active = 1}

\* ORDER BY id ASC LIMIT 1, then fetchone(): NoRow stands for no row.
FirstById(rows) ==
    IF rows = {} THEN NoRow
    ELSE CHOOSE r \in rows : \A q \in rows : r.id <= q.id

\* ORDER BY total_calls ASC LIMIT 1 as SQLite runs it: the table is scanned in
\* rowid (= id) order and a row replaces the kept one only when its key is
\* strictly smaller, so among equal keys the first row scanned stays.
RECURSIVE ScanTopByCalls(_, _, _)
ScanTopByCalls(rows, i, best) ==
    IF \A r \in rows : r.id < i THEN best
    ELSE LET here == {r \in rows : r.id = i}
             r == CHOOSE x \in here : TRUE
         IN IF here = {} THEN ScanTopByCalls(rows, i + 1, best)
            ELSE IF best = NoRow \/ r.total_calls < best.total_calls
                 THEN ScanTopByCalls(rows, i + 1, r)
                 ELSE ScanTopByCalls(rows, i + 1, best)

\* Variant: among equal total_calls the row with the largest id wins.
LeastUsedRowLastWins(rows) ==
    IF ActiveRows(rows) = {} THEN NoRow
    ELSE CHOOSE r \in ActiveRows(rows) :
            \A q \in ActiveRows(rows) :
               \/ r.total_calls < q.total_calls
               \/ r.total_calls = q.total_calls /\ r.id >= q.id

LeastUsedRow(rows) == ScanTopByCalls(ActiveRows(rows), 1, NoRow)

\* ORDER BY RANDOM() LIMIT 1: any active row.
RandomRows(rows) == IF ActiveRows(rows) = {} THEN {NoRow} ELSE ActiveRows(rows)

\* Variant: id >= ? instead of id > ?.
RoundRobinRowNotStrict(rows, cursor) ==
    IF cursor # None
    THEN LET row == FirstById({r \in ActiveRows(rows) : r.id >= cursor})
         IN IF row = NoRow THEN FirstById(ActiveRows(rows)) ELSE row
    ELSE FirstById(ActiveRows(rows))

\* Variant: no second query when nothing follows the cursor.
RoundRobinRowNoWrap(rows, cursor) ==
    IF cursor # None
    THEN FirstById({r \in ActiveRows(rows) : r.id > cursor})
    ELSE FirstById(ActiveRows(rows))

\* Variant: the cursor is looked up among the active rows first, and nothing
\* is returned when it is not one of them.
RoundRobinRowByPosition(rows, cursor) ==
    IF cursor # None
    THEN IF \E r \in ActiveRows(rows) : r.id = cursor
         THEN LET row == FirstById({r \in ActiveRows(rows) : r.id > cursor})
              IN IF row = NoRow THEN FirstById(ActiveRows(rows)) ELSE row
         ELSE NoRow
    ELSE FirstById(ActiveRows(rows))

\* Variant: a cursor that names no row of the table counts as no cursor.
RoundRobinRowStaleRestart(rows, cursor) ==
    IF cursor # None /\ \E r \in rows : r.id = cursor
    THEN LET row == FirstById({r \in ActiveRows(rows) : r.id > cursor})
         IN IF row = NoRow THEN FirstById(ActiveRows(rows)) ELSE row
    ELSE FirstById(ActiveRows(rows))

\* The round_robin branch: the row after the cursor, else back to the start.
RoundRobinRow(rows, cursor) ==
    IF cursor # None
    THEN LET row == FirstById({r \in ActiveRows(rows) : r.id > cursor})
         IN IF row = NoRow THEN FirstById(ActiveRows(rows)) ELSE row
    ELSE FirstById(ActiveRows(rows))

\* Variant: the cursor is assigned whether or not a row was found.
NextCursorAlways(cursor, row) == row.id

\* if row: self._last_used_account_id = row["id"]
NextCursor(cursor, row) == IF row # NoRow THEN row.id ELSE cursor

\* Variant: a lock that never blocks.
LockNeverHeld == TRUE

\* with self._db_lock: the lock can be taken only when nobody holds it.
LockFree == db_lock = NoThread

Call(op, strategy, id, before, result) ==
    [op |-> op, strategy |-> strategy, id |-> id, before |-> before, result |-> result]

(***************************************************************************)
(* DBManager operations on accounts, each one whole under _db_lock.        *)
(***************************************************************************)
get_next_account(strategy) ==
    /\ LockFree
    /\ \E row \in (CASE strategy = "random" -> RandomRows(accounts)
                     [] strategy = "least_used" -> {LeastUsedRow(accounts)}
                     [] OTHER -> {RoundRobinRow(accounts, last_used_account_id)}) :
          /\ last_used_account_id' =
                IF strategy = "round_robin"
                THEN NextCursor(last_used_account_id, row)
                ELSE last_used_account_id
          /\ last_call' = Call("get_next_account", strategy, None, last_used_account_id, row)
    /\ UNCHANGED <<accounts, next_id, db_lock>>

create_account(token, data_dir) ==
    /\ LockFree
    /\ next_id <= MaxId
    /\ IF data_dir # "NULL" /\ \E r \in accounts : r.data_dir = data_dir
       THEN \* sqlite3.IntegrityError on the UNIQUE column: nothing is stored
            /\ UNCHANGED <<accounts, next_id>>
            /\ last_call' = Call("create_account", "", None, last_used_account_id, NoRow)
       ELSE /\ accounts' = accounts \cup {NewRow(next_id, token, data_dir)}
            /\ next_id' = next_id + 1
            /\ last_call' = Call("create_account", "", next_id, last_used_account_id,
                                 NewRow(next_id, token, data_dir))
    /\ UNCHANGED <<last_used_account_id, db_lock>>

\* Variant: is_active is left as it was.
update_token_keeps_status(account_id, token) ==
    /\ LockFree
    /\ accounts' = {IF r.id = account_id THEN [r EXCEPT !.token = token] ELSE r : r \in accounts}
    /\ last_call' = Call("update_token", "", account_id, last_used_account_id, NoRow)
    /\ UNCHANGED <<next_id, last_used_account_id, db_lock>>

update_token(account_id, token) ==
    /\ LockFree
    /\ accounts' = {IF r.id = account_id
                    THEN [r EXCEPT !.token = token, !.is_active = 1]
                    ELSE r : r \in accounts}
    /\ last_call' = Call("update_token", "", account_id, last_used_account_id, NoRow)
    /\ UNCHANGED <<next_id, last_used_account_id, db_lock>>

\* Variant: the row counted is also made active.
update_stats_reactivating(account_id) ==
    /\ LockFree
    /\ \A r \in accounts : r.id = account_id => r.total_calls < MaxCalls
    /\ accounts' = {IF r.id = account_id
                    THEN [r EXCEPT !.total_calls = r.total_calls + 1, !.is_active = 1]
                    ELSE r : r \in accounts}
    /\ last_call' = Call("update_stats", "", account_id, last_used_account_id, NoRow)
    /\ UNCHANGED <<next_id, last_used_account_id, db_lock>>

update_stats(account_id) ==
    /\ LockFree
    /\ \A r \in accounts : r.id = account_id => r.total_calls < MaxCalls
    /\ accounts' = {IF r.id = account_id
                    THEN [r EXCEPT !.total_calls = r.total_calls + 1]
                    ELSE r : r \in accounts}
    /\ last_call' = Call("update_stats", "", account_id, last_used_account_id, NoRow)
    /\ UNCHANGED <<next_id, last_used_account_id, db_lock>>

disable_account(account_id) ==
    /\ LockFree
    /\ accounts' = {IF r.id = account_id THEN [r EXCEPT !.is_active = 0] ELSE r : r \in accounts}
    /\ last_call' = Call("disable_account", "", account_id, last_used_account_id, NoRow)
    /\ UNCHANGED <<next_id, last_used_account_id, db_lock>>

delete_account(account_id) ==
    /\ LockFree
    /\ accounts' = {r \in accounts : r.id # account_id}
    /\ last_call' = Call("delete_account", "", account_id, last_used_account_id, NoRow)
    /\ UNCHANGED <<next_id, last_used_account_id, db_lock>>

toggle_account(account_id) ==
    /\ LockFree
    /\ accounts' = {IF r.id = account_id
                    THEN [r EXCEPT !.is_active = IF r.is_active # 0 THEN 0 ELSE 1]
                    ELSE r : r \in accounts}
    /\ last_call' = Call("toggle_account", "", account_id, last_used_account_id, NoRow)
    /\ UNCHANGED <<next_id, last_used_account_id, db_lock>>

PoolInit ==
    /\ accounts = {}
    /\ next_id = 1
    /\ last_used_account_id = None
    /\ db_lock = NoThread
    /\ last_call = Call("__init__", "", None, None, NoRow)
    /\ hist = <<>>

ConcIdle ==
    /\ th_pc = [t \in Threads |-> "idle"]
    /\ th_cursor = [t \in Threads |-> None]
    /\ th_row = [t \in Threads |-> NoRow]
    /\ th_expect = [t \in Threads |-> NoRow]
    /\ seq_cursor = None

RetryIdle ==
    /\ max_retries = 0
    /\ retry_delay = 0
    /\ upstream = NoResp
    /\ seen = <<>>
    /\ attempt = 0
    /\ rq_pc = "idle"
    /\ requests = 0
    /\ sleeps = <<>>
    /\ last_error = "none"
    /\ resp = NoResp
    /\ raised = "none"

ChatIdle ==
    /\ cc_pc = "idle"
    /\ cc_token = ""
    /\ cc_messages = "none"
    /\ create_status = 0
    /\ create_requests = 0
    /\ chat_id = ""
    /\ stream_requests = 0
    /\ stream_status = 0
    /\ lines = <<>>
    /\ cc_error = "none"
    /\ out = <<>>

DispIdle ==
    /\ endpoint = "none"
    /\ d_pc = "idle"
    /\ d_attempt = 0
    /\ d_list = <<>>
    /\ d_account = NoRow
    /\ tried = <<>>
    /\ logs = <<>>
    /\ http_status = 0

AnthIdle ==
    /\ events = <<>>
    /\ output_tokens = 0
    /\ full_content = ""

ExtractIdle ==
    /\ ex_pc = "idle"
    /\ ex_payload = 0
    /\ ex_content = ""
    /\ ex_effect = ""

NoCols == [expires_at |-> 0, last_refresh_at |-> 0, last_used_at |-> 0]

StampIdle ==
    /\ clock = 0
    /\ cols = [i \in Ids |-> NoCols]
    /\ new_token = [i \in Ids |-> ""]

Keys == {"key:abc", "ip:10.0.0.1"}    \* what _get_client_key can give
NoKeyCall == [key |-> "", allowed |-> FALSE, remaining |-> 0, before |-> [k \in Keys |-> <<>>]]

LimitIdle ==
    /\ rl_requests = 0
    /\ rl_window = 0
    /\ rl_now = 0
    /\ rl_store = [k \in Keys |-> <<>>]
    /\ rl_admitted = [k \in Keys |-> <<>>]
    /\ rl_last = NoKeyCall

NoClient == 0
Dispatches == {"d1", "d2"}         \* the dispatches in flight
NoGet == [op |-> "none", client |-> NoClient, built |-> FALSE]

ClientIdle ==
    /\ hc_client = NoClient
    /\ hc_open = {}
    /\ hc_made = 0
    /\ hc_closing = NoClient
    /\ hc_held = [d \in Dispatches |-> NoClient]
    /\ hc_last = NoGet

SideIdle == StampIdle /\ LimitIdle /\ ClientIdle

InitPool == PoolInit /\ ConcIdle /\ RetryIdle /\ ChatIdle /\ DispIdle /\ AnthIdle /\ ExtractIdle /\ SideIdle

\* What SpecPool leaves alone.  SpecPool varies total_calls and data_dir and
\* stores a single token value; SpecConc varies the token.
PoolFrame == UNCHANGED hist /\ UNCHANGED concVars /\ UNCHANGED retryVars /\ UNCHANGED chatVars /\ UNCHANGED dispVars /\ UNCHANGED anthVars /\ UNCHANGED extractVars /\ UNCHANGED sideVars

NextPool ==
    \/ \E s \in Strategies : get_next_account(s) /\ PoolFrame
    \/ \E d \in DataDirs : create_account("tokA", d) /\ PoolFrame
    \/ \E i \in Ids : update_token(i, "tokA") /\ PoolFrame
    \/ \E i \in Ids : update_stats(i) /\ PoolFrame
    \/ \E i \in Ids : disable_account(i) /\ PoolFrame
    \/ \E i \in Ids : delete_account(i) /\ PoolFrame
    \/ \E i \in Ids : toggle_account(i) /\ PoolFrame

SpecPool == InitPool /\ [][NextPool]_vars


(***************************************************************************)
(* SpecFair: the pool with the round_robin results since the last          *)
(* mutation of the table recorded in hist.                                 *)
(***************************************************************************)
FairFrame == UNCHANGED concVars /\ UNCHANGED retryVars /\ UNCHANGED chatVars /\ UNCHANGED dispVars /\ UNCHANGED anthVars /\ UNCHANGED extractVars /\ UNCHANGED sideVars

NextFair ==
    \/ /\ Len(hist) < MaxHist
       /\ get_next_account("round_robin")
       /\ hist' = IF last_call'.result # NoRow
                  THEN Append(hist, last_call'.result.id) ELSE hist
       /\ FairFrame
    \/ \E d \in DataDirs : create_account("tokA", d) /\ hist' = <<>> /\ FairFrame
    \/ \E i \in Ids : update_token(i, "tokA") /\ hist' = <<>> /\ FairFrame
    \/ \E i \in Ids : update_stats(i) /\ UNCHANGED hist /\ FairFrame
    \/ \E i \in Ids : disable_account(i) /\ hist' = <<>> /\ FairFrame
    \/ \E i \in Ids : delete_account(i) /\ hist' = <<>> /\ FairFrame
    \/ \E i \in Ids : toggle_account(i) /\ hist' = <<>> /\ FairFrame

SpecFair == InitPool /\ [][NextFair]_vars

(***************************************************************************)
(* SpecStamps: the pool with the columns the calls stamp with              *)
(* datetime.now(): expires_at, last_refresh_at and last_used_at, kept per   *)
(* id in cols.  Time is counted in hours, and the calls that read the      *)
(* system time are taken an hour apart: each reads clock + 1.               *)
(***************************************************************************)
\* timedelta(hours=3)
TokenLifeHours == 3

\* What datetime.now() gives to the next call.
Times == {t \in 1..MaxClock : t = clock + 1}

HasRow(account_id) == \E r \in accounts : r.id = account_id

RowOf(rows, account_id) ==
    IF \E r \in rows : r.id = account_id
    THEN CHOOSE r \in rows : r.id = account_id
    ELSE NoRow

\* INSERT ... expires_at = now + 3 h; last_refresh_at and last_used_at stay NULL.
create_account_at(token, data_dir, now) ==
    /\ next_id <= MaxRows
    /\ create_account(token, data_dir)
    /\ cols' = IF accounts' # accounts
               THEN [cols EXCEPT ![next_id] = [NoCols EXCEPT !.expires_at = now + TokenLifeHours]]
               ELSE cols
    /\ clock' = now
    /\ UNCHANGED new_token

\* UPDATE ... SET token = ?, expires_at = ?, last_refresh_at = ?, is_active = 1 WHERE id = ?
update_token_at(account_id, token, now) ==
    /\ update_token(account_id, token)
    /\ cols' = IF HasRow(account_id)
               THEN [cols EXCEPT ![account_id].expires_at = now + TokenLifeHours,
                                 ![account_id].last_refresh_at = now]
               ELSE cols
    /\ new_token' = IF HasRow(account_id)
                    THEN [new_token EXCEPT ![account_id] = token]
                    ELSE new_token
    /\ clock' = now

\* UPDATE ... SET total_calls = total_calls + 1, last_used_at = ? WHERE id = ?
update_stats_at(account_id, now) ==
    /\ update_stats(account_id)
    /\ cols' = IF HasRow(account_id)
               THEN [cols EXCEPT ![account_id].last_used_at = now]
               ELSE cols
    /\ clock' = now
    /\ UNCHANGED new_token

\* DELETE FROM accounts WHERE id = ?: the columns go with the row.
delete_account_row(account_id) ==
    /\ delete_account(account_id)
    /\ cols' = [cols EXCEPT ![account_id] = NoCols]
    /\ new_token' = [new_token EXCEPT ![account_id] = ""]
    /\ UNCHANGED clock

StampFrame == UNCHANGED hist /\ UNCHANGED concVars /\ UNCHANGED retryVars /\ UNCHANGED chatVars /\ UNCHANGED dispVars /\ UNCHANGED anthVars /\ UNCHANGED extractVars /\ UNCHANGED limitVars /\ UNCHANGED clientVars

NextStamps ==
    \/ \E s \in Strategies : get_next_account(s) /\ UNCHANGED stampVars /\ StampFrame
    \/ \E t \in Tokens, now \in Times : create_account_at(t, "NULL", now) /\ StampFrame
    \/ \E i \in 1..MaxRows, t \in Tokens, now \in Times : update_token_at(i, t, now) /\ StampFrame
    \/ \E i \in 1..MaxRows, now \in Times : update_stats_at(i, now) /\ StampFrame
    \/ \E i \in 1..MaxRows : disable_account(i) /\ UNCHANGED stampVars /\ StampFrame
    \/ \E i \in 1..MaxRows : delete_account_row(i) /\ StampFrame
    \/ \E i \in 1..MaxRows : toggle_account(i) /\ UNCHANGED stampVars /\ StampFrame

SpecStamps == InitPool /\ [][NextStamps]_vars

(***************************************************************************)
(* SpecConc: get_next_account("round_robin") statement by statement, run   *)
(* by Threads.  A thread enters the call, blocks at `with self._db_lock`,  *)
(* runs the first query with the cursor it reads, runs the second query    *)
(* when nothing follows the cursor, stores the cursor and leaves the with  *)
(* block.  The other DBManager operations take the same lock.  th_expect   *)
(* and seq_cursor replay the calls one after another in the order the lock *)
(* was granted.                                                            *)
(***************************************************************************)
Enter(t) ==
    /\ th_pc[t] = "idle"
    /\ th_pc' = [th_pc EXCEPT ![t] = "waiting"]
    /\ UNCHANGED <<th_cursor, th_row, th_expect, seq_cursor>>
    /\ UNCHANGED poolVars

Acquire(t) ==
    /\ th_pc[t] = "waiting"
    /\ LockFree
    /\ db_lock' = t
    /\ th_pc' = [th_pc EXCEPT ![t] = "locked"]
    /\ th_expect' = [th_expect EXCEPT ![t] = RoundRobinRow(accounts, seq_cursor)]
    /\ seq_cursor' = NextCursor(seq_cursor, RoundRobinRow(accounts, seq_cursor))
    /\ UNCHANGED <<th_cursor, th_row>>
    /\ UNCHANGED <<accounts, next_id, last_used_account_id, last_call>>

FirstQuery(t) ==
    /\ th_pc[t] = "locked"
    /\ LET row == IF last_used_account_id # None
                  THEN FirstById({r \in ActiveRows(accounts) : r.id > last_used_account_id})
                  ELSE FirstById(ActiveRows(accounts))
       IN /\ th_cursor' = [th_cursor EXCEPT ![t] = last_used_account_id]
          /\ th_row' = [th_row EXCEPT ![t] = row]
          /\ th_pc' = [th_pc EXCEPT ![t] =
                          IF last_used_account_id # None /\ row = NoRow
                          THEN "wrap" ELSE "store"]
    /\ UNCHANGED <<th_expect, seq_cursor>>
    /\ UNCHANGED poolVars

SecondQuery(t) ==
    /\ th_pc[t] = "wrap"
    /\ th_row' = [th_row EXCEPT ![t] = FirstById(ActiveRows(accounts))]
    /\ th_pc' = [th_pc EXCEPT ![t] = "store"]
    /\ UNCHANGED <<th_cursor, th_expect, seq_cursor>>
    /\ UNCHANGED poolVars

StoreCursor(t) ==
    /\ th_pc[t] = "store"
    /\ last_used_account_id' = NextCursor(last_used_account_id, th_row[t])
    /\ th_pc' = [th_pc EXCEPT ![t] = "unlock"]
    /\ UNCHANGED <<th_cursor, th_row, th_expect, seq_cursor>>
    /\ UNCHANGED <<accounts, next_id, db_lock, last_call>>

Release(t) ==
    /\ th_pc[t] = "unlock"
    /\ db_lock' = NoThread
    /\ last_call' = Call("get_next_account", "round_robin", None, th_cursor[t], th_row[t])
    /\ th_pc' = [th_pc EXCEPT ![t] = "idle"]
    /\ th_cursor' = [th_cursor EXCEPT ![t] = None]
    /\ th_row' = [th_row EXCEPT ![t] = NoRow]
    /\ th_expect' = [th_expect EXCEPT ![t] = NoRow]
    /\ UNCHANGED seq_cursor
    /\ UNCHANGED <<accounts, next_id, last_used_account_id>>

ConcFrame == UNCHANGED hist /\ UNCHANGED concVars /\ UNCHANGED retryVars /\ UNCHANGED chatVars /\ UNCHANGED dispVars /\ UNCHANGED anthVars /\ UNCHANGED extractVars /\ UNCHANGED sideVars

NextConc ==
    \/ \E t \in Threads : Enter(t) /\ UNCHANGED hist /\ UNCHANGED retryVars /\ UNCHANGED chatVars /\ UNCHANGED dispVars /\ UNCHANGED anthVars /\ UNCHANGED extractVars /\ UNCHANGED sideVars
    \/ \E t \in Threads : Acquire(t) /\ UNCHANGED hist /\ UNCHANGED retryVars /\ UNCHANGED chatVars /\ UNCHANGED dispVars /\ UNCHANGED anthVars /\ UNCHANGED extractVars /\ UNCHANGED sideVars
    \/ \E t \in Threads : FirstQuery(t) /\ UNCHANGED hist /\ UNCHANGED retryVars /\ UNCHANGED chatVars /\ UNCHANGED dispVars /\ UNCHANGED anthVars /\ UNCHANGED extractVars /\ UNCHANGED sideVars
    \/ \E t \in Threads : SecondQuery(t) /\ UNCHANGED hist /\ UNCHANGED retryVars /\ UNCHANGED chatVars /\ UNCHANGED dispVars /\ UNCHANGED anthVars /\ UNCHANGED extractVars /\ UNCHANGED sideVars
    \/ \E t \in Threads : StoreCursor(t) /\ UNCHANGED hist /\ UNCHANGED retryVars /\ UNCHANGED chatVars /\ UNCHANGED dispVars /\ UNCHANGED anthVars /\ UNCHANGED extractVars /\ UNCHANGED sideVars
    \/ \E t \in Threads : Release(t) /\ UNCHANGED hist /\ UNCHANGED retryVars /\ UNCHANGED chatVars /\ UNCHANGED dispVars /\ UNCHANGED anthVars /\ UNCHANGED extractVars /\ UNCHANGED sideVars
    \/ \E k \in Tokens : create_account(k, "NULL") /\ ConcFrame
    \/ \E i \in Ids, k \in Tokens : update_token(i, k) /\ ConcFrame
    \/ \E i \in Ids : disable_account(i) /\ ConcFrame
    \/ \E i \in Ids : delete_account(i) /\ ConcFrame
    \/ \E i \in Ids : toggle_account(i) /\ ConcFrame

SpecConc == InitPool /\ [][NextConc]_vars

(***************************************************************************)
(* SpecRetry: ZaiProvider(max_retries, retry_delay) and one call of        *)
(* _request_with_retry.  A step runs from one await to the next: the       *)
(* request with the handling of its outcome, and the backoff sleep.        *)
(***************************************************************************)
\* `x or default`: None and 0 both give the default.
OrDefault(x, default) == IF x = 0 THEN default ELSE x

\* Variant: range(self.max_retries + 1).
InRangeInclusive(i, n) == 0 <= i /\ i <= n

\* i in range(n)
InRange(i, n) == 0 <= i /\ i < n

\* Variant: only a status below 400 is returned.
ReturnedAtOnceBelow400(status) == status < 400

\* if resp.status_code < 500: return resp
ReturnedAtOnce(status) == status < 500

\* Variant: except Exception.
RetriedAny(exc) == TRUE

\* except (httpx.ConnectError, httpx.ReadTimeout)
Retried(exc) == exc \in {"ConnectError", "ReadTimeout"}

\* if attempt < self.max_retries - 1
SleepsAfter(i, n) == i < n - 1

\* Variant: self.retry_delay * attempt.
BackoffDelayFromZero(delay, i) == delay * i

\* self.retry_delay * (attempt + 1)
BackoffDelay(delay, i) == delay * (i + 1)

\* Variant: last_error = last_error or e, the first error is kept.
RecordErrorFirst(prev, exc) == IF prev # "none" THEN prev ELSE exc

\* last_error = e
RecordError(prev, exc) == exc

\* raise last_error or Exception("请求失败，已达最大重试次数")
Exhausted(err) == IF err # "none" THEN err ELSE "MaxRetries"

\* The for statement takes its next value, or the loop ends and the function raises.
LoopNext(i, err) ==
    IF InRange(i, max_retries)
    THEN /\ attempt' = i
         /\ rq_pc' = "request"
         /\ raised' = raised
    ELSE /\ attempt' = attempt
         /\ rq_pc' = "raised"
         /\ raised' = Exhausted(err)

\* What follows a failed attempt: the backoff sleep, or the next turn of the loop.
AfterFailure(err) ==
    IF SleepsAfter(attempt, max_retries)
    THEN /\ rq_pc' = "sleep"
         /\ UNCHANGED <<attempt, raised>>
    ELSE LoopNext(attempt + 1, err)

Begin ==
    /\ rq_pc = "start"
    /\ LoopNext(0, last_error)
    /\ UNCHANGED <<max_retries, retry_delay, upstream, seen, requests, sleeps, last_error, resp>>

SendRequest ==
    /\ rq_pc = "request"
    /\ requests' = requests + 1
    /\ seen' = Append(seen, upstream)
    /\ upstream' \in Outcomes
    /\ IF upstream.exc = "none"
       THEN IF ReturnedAtOnce(upstream.status)
            THEN /\ resp' = upstream
                 /\ rq_pc' = "returned"
                 /\ UNCHANGED <<attempt, last_error, raised>>
            ELSE /\ AfterFailure(last_error)
                 /\ UNCHANGED <<last_error, resp>>
       ELSE IF Retried(upstream.exc)
            THEN /\ last_error' = RecordError(last_error, upstream.exc)
                 /\ AfterFailure(RecordError(last_error, upstream.exc))
                 /\ UNCHANGED resp
            ELSE /\ raised' = upstream.exc
                 /\ rq_pc' = "raised"
                 /\ UNCHANGED <<attempt, last_error, resp>>
    /\ UNCHANGED <<max_retries, retry_delay, sleeps>>

BackoffSleep ==
    /\ rq_pc = "sleep"
    /\ sleeps' = Append(sleeps, BackoffDelay(retry_delay, attempt))
    /\ LoopNext(attempt + 1, last_error)
    /\ UNCHANGED <<max_retries, retry_delay, upstream, seen, requests, last_error, resp>>

\* The provider is built with max_retries and retry_delay from 0 (or None,
\* the module-level provider) upwards.
InitRetry ==
    /\ PoolInit
    /\ ConcIdle
    /\ ChatIdle
    /\ DispIdle
    /\ AnthIdle
    /\ ExtractIdle
    /\ SideIdle
    /\ \E m \in 0..MaxRetriesIn : max_retries = OrDefault(m, HTTP_MAX_RETRIES)
    /\ \E d \in 0..MaxDelayIn : retry_delay = OrDefault(d, HTTP_RETRY_DELAY)
    /\ upstream \in Outcomes
    /\ seen = <<>>
    /\ attempt = 0
    /\ rq_pc = "start"
    /\ requests = 0
    /\ sleeps = <<>>
    /\ last_error = "none"
    /\ resp = NoResp
    /\ raised = "none"

RetryFrame == UNCHANGED poolVars /\ UNCHANGED hist /\ UNCHANGED concVars /\ UNCHANGED chatVars /\ UNCHANGED dispVars /\ UNCHANGED anthVars /\ UNCHANGED extractVars /\ UNCHANGED sideVars

NextRetry ==
    \/ Begin /\ RetryFrame
    \/ SendRequest /\ RetryFrame
    \/ BackoffSleep /\ RetryFrame

SpecRetry == InitRetry /\ [][NextRetry]_vars

(***************************************************************************)
(* ZaiProvider.chat_completion: one dispatch against one credential.       *)
(* The create request goes through _request_with_retry above; the stream   *)
(* request is issued directly and its body is read line by line.           *)
(***************************************************************************)

\* JSON values of a "content" key, as far as the code tells them apart.
Absent == "<absent>"
Null == "<null>"
Number == "<number>"
Raises == "<raise>"
ContentValues == {Absent, Null, Number, "", "Hi", "World!"}

\* The text after "data: ": the literal [DONE], text that is not JSON, a
\* JSON value that is not an object, or a JSON object with its "choices"
\* (absent, an empty list, a list whose first entry is not an object, a list
\* whose first entry is an object), that entry's "delta" and its "content",
\* and the top-level "content".
Payload(json, choices, delta, dcontent, content) ==
    [json |-> json, choices |-> choices, delta |-> delta, dcontent |-> dcontent, content |-> content]

NoPayload == Payload("none", "absent", "absent", Absent, Absent)

JsonObject(choices, delta, dcontent, content) == Payload("object", choices, delta, dcontent, content)

Payloads ==
    {Payload("[DONE]", "absent", "absent", Absent, Absent),
     Payload("malformed", "absent", "absent", Absent, Absent),
     Payload("scalar", "absent", "absent", Absent, Absent)}
    \cup {JsonObject(c, d, dc, tc) : c \in {"absent", "empty", "entry_not_object", "entry"},
                                     d \in {"absent", "null", "object"},
                                     dc \in ContentValues, tc \in ContentValues}

\* Variant: dict[key] read without a default.
GetNoDefault(value) == value

\* dict.get(key, "")
Get(value) == IF value = Absent THEN "" ELSE value

\* _extract_content(chunk_data): the value it returns, or Raises when the
\* membership test, the subscript or .get fails on a value that is no dict.
ExtractContentTopFirst(p) ==
    IF p.json # "object" THEN Raises
    ELSE IF p.content # Absent THEN Get(p.content)
    ELSE IF p.choices = "entry_not_object" \/ (p.choices = "entry" /\ p.delta = "null") THEN Raises
    ELSE IF p.choices = "entry" /\ p.delta = "object" THEN Get(p.dcontent)
    ELSE ""

ExtractContent(p) ==
    IF p.json # "object" THEN Raises
    ELSE IF p.choices \in {"entry_not_object", "entry"}
         THEN IF p.choices = "entry_not_object" \/ p.delta = "null" THEN Raises
              ELSE IF p.delta = "absent" THEN ""
              ELSE Get(p.dcontent)
         ELSE Get(p.content)

\* Variant: only None counts as false.
TruthyNonNull(value) == value # Null

\* "if content:" in Python
Truthy(value) == value \notin {"", Null}

\* A line of the streamed body: what it starts with, and the rest.
Line(prefix, body) == [prefix |-> prefix, body |-> body]

DataLine(p) == Line("data: ", p)

DoneLine == DataLine(Payload("[DONE]", "absent", "absent", Absent, Absent))

Lines ==
    {Line("", NoPayload),
     Line(":", NoPayload),
     Line("event: ", NoPayload),
     DoneLine,
     DataLine(Payload("malformed", "absent", "absent", Absent, Absent)),
     DataLine(Payload("scalar", "absent", "absent", Absent, Absent)),
     DataLine(JsonObject("entry", "object", "Hi", Absent)),
     DataLine(JsonObject("absent", "absent", Absent, "World!")),
     DataLine(JsonObject("absent", "absent", Absent, Absent)),
     DataLine(JsonObject("entry", "object", Null, Absent)),
     DataLine(JsonObject("entry", "absent", Absent, Absent)),
     DataLine(JsonObject("entry_not_object", "absent", Absent, Absent))}

\* create_chat_completion_chunk(id, model, content, finish_reason): one
\* streaming chat-completion chunk whose single choice carries delta.content
\* (an empty delta for "") and finish_reason; the model name is fixed here.
create_chat_completion_chunk(id, content, finish_reason) ==
    [kind |-> "chunk", id |-> id, content |-> content, finish_reason |-> finish_reason]

\* f"data: {json.dumps(...)}\n\n" around a chunk, around {"error": message},
\* and the literal "data: [DONE]\n\n".
DataChunk(id, content, finish_reason) ==
    [prefix |-> "data: ", json |-> create_chat_completion_chunk(id, content, finish_reason)]

ErrorEvent(message) ==
    [prefix |-> "data: ", json |-> [kind |-> "error", id |-> "", content |-> message, finish_reason |-> "none"]]

DoneSentinel ==
    [prefix |-> "data: ", json |-> [kind |-> "[DONE]", id |-> "", content |-> "", finish_reason |-> "none"]]

RequestId == "chatcmpl"

\* _stream_completion after its loop: the final chunk, then [DONE].
StreamTailNoStop == <<DoneSentinel>>

StreamTail == <<DataChunk(RequestId, "", "stop"), DoneSentinel>>

\* "except Exception as e" of chat_completion: an error chunk, then [DONE].
ErrorTail(e) == <<DataChunk("error", "Error: " \o e, "none"), DoneSentinel>>

\* The "id" of the body of a successful create response: a string, an
\* empty string, no such key, or null.
CreateIds == {"chat1", "", Absent, Null}

\* The messages of a request: none, a list whose last message has a
\* "content" key, a list whose last message has none.
Messages == {"none", "ok", "no_content"}

\* The arguments: a token or none, and the messages.
InitChat ==
    /\ PoolInit
    /\ ConcIdle
    /\ DispIdle
    /\ AnthIdle
    /\ ExtractIdle
    /\ SideIdle
    /\ max_retries = OrDefault(None, HTTP_MAX_RETRIES)
    /\ retry_delay = OrDefault(None, HTTP_RETRY_DELAY)
    /\ upstream \in Outcomes
    /\ seen = <<>>
    /\ attempt = 0
    /\ rq_pc = "idle"
    /\ requests = 0
    /\ sleeps = <<>>
    /\ last_error = "none"
    /\ resp = NoResp
    /\ raised = "none"
    /\ cc_pc = "start"
    /\ cc_token \in {"", "tokA"}
    /\ cc_messages \in Messages
    /\ create_status = 0
    /\ create_requests = 0
    /\ chat_id = ""
    /\ stream_requests = 0
    /\ stream_status = 0
    /\ lines = <<>>
    /\ cc_error = "none"
    /\ out = <<>>

\* Variant: the messages are not checked for emptiness.
CheckArgumentsNoMessagesCheck ==
    /\ cc_pc = "start"
    /\ IF cc_token = ""
       THEN /\ out' = Append(out, ErrorEvent("No token provided"))
            /\ cc_pc' = "done"
            /\ UNCHANGED <<rq_pc, cc_error>>
       ELSE IF cc_messages = "no_content"
            THEN /\ cc_error' = "KeyError"
                 /\ cc_pc' = "raised"
                 /\ UNCHANGED <<rq_pc, out>>
            ELSE /\ cc_pc' = "create"
                 /\ rq_pc' = "start"
                 /\ UNCHANGED <<out, cc_error>>
    /\ UNCHANGED <<max_retries, retry_delay, upstream, seen, attempt, requests, sleeps, last_error, resp, raised>>
    /\ UNCHANGED <<cc_token, cc_messages, create_status, create_requests, chat_id,
                   stream_requests, stream_status, lines>>

\* The checks before the try block; then _create_chat calls
\* _request_with_retry.
CheckArguments ==
    /\ cc_pc = "start"
    /\ IF cc_token = ""
       THEN /\ out' = Append(out, ErrorEvent("No token provided"))
            /\ cc_pc' = "done"
            /\ UNCHANGED <<rq_pc, cc_error>>
       ELSE IF cc_messages = "none"
            THEN /\ out' = Append(out, ErrorEvent("No messages provided"))
                 /\ cc_pc' = "done"
                 /\ UNCHANGED <<rq_pc, cc_error>>
            ELSE IF cc_messages = "no_content"
                 THEN \* messages[-1]["content"], outside the try block
                      /\ cc_error' = "KeyError"
                      /\ cc_pc' = "raised"
                      /\ UNCHANGED <<rq_pc, out>>
                 ELSE /\ cc_pc' = "create"
                      /\ rq_pc' = "start"
                      /\ UNCHANGED <<out, cc_error>>
    /\ UNCHANGED <<max_retries, retry_delay, upstream, seen, attempt, requests, sleeps, last_error, resp, raised>>
    /\ UNCHANGED <<cc_token, cc_messages, create_status, create_requests, chat_id,
                   stream_requests, stream_status, lines>>

\* The call frame of _request_with_retry is gone once it has returned or
\* raised.
RetryReset ==
    /\ seen' = <<>>
    /\ attempt' = 0
    /\ rq_pc' = "idle"
    /\ requests' = 0
    /\ sleeps' = <<>>
    /\ last_error' = "none"
    /\ resp' = NoResp
    /\ raised' = "none"
    /\ UNCHANGED <<max_retries, retry_delay, upstream>>

\* _create_chat after _request_with_retry returned: None on 401,
\* raise_for_status, else the id of the body; chat_id[:8] in the log line
\* raises TypeError on an id that is None.
Is401Never(status) == FALSE

Is401(status) == status = 401

CreateResult(status, id) ==
    IF Is401(status) THEN [raised |-> "none", chat_id |-> ""]
    ELSE IF status \notin 200..299 THEN [raised |-> "HTTPStatusError", chat_id |-> ""]
    ELSE IF Get(id) = Null THEN [raised |-> "TypeError", chat_id |-> ""]
    ELSE [raised |-> "none", chat_id |-> Get(id)]

CreateReturned ==
    /\ cc_pc = "create"
    /\ rq_pc = "returned"
    /\ create_status' = resp.status
    /\ create_requests' = requests
    /\ \E id \in CreateIds :
          LET r == CreateResult(resp.status, id) IN
          /\ chat_id' = r.chat_id
          /\ IF r.raised # "none"
             THEN /\ cc_error' = r.raised
                  /\ out' = out \o ErrorTail(r.raised)
                  /\ cc_pc' = "done"
             ELSE IF r.chat_id = ""
                  THEN /\ out' = Append(out, ErrorEvent("Token invalid or expired"))
                       /\ cc_pc' = "done"
                       /\ UNCHANGED cc_error
                  ELSE /\ cc_pc' = "stream"
                       /\ UNCHANGED <<out, cc_error>>
    /\ RetryReset
    /\ UNCHANGED <<cc_token, cc_messages, stream_requests, stream_status, lines>>

\* _request_with_retry raised: caught by chat_completion.
CreateRaised ==
    /\ cc_pc = "create"
    /\ rq_pc = "raised"
    /\ create_requests' = requests
    /\ cc_error' = raised
    /\ out' = out \o ErrorTail(raised)
    /\ cc_pc' = "done"
    /\ RetryReset
    /\ UNCHANGED <<cc_token, cc_messages, create_status, chat_id, stream_requests, stream_status, lines>>

\* client.stream("POST", .../api/chat/completions): issued once, outside
\* _request_with_retry; whatever status comes back, the body is read.
StreamOpen ==
    /\ cc_pc = "stream"
    /\ stream_requests' = stream_requests + 1
    /\ upstream' = NoResp
    /\ IF upstream.exc = "none"
       THEN /\ stream_status' = upstream.status
            /\ cc_pc' = "lines"
            /\ UNCHANGED <<out, cc_error>>
       ELSE /\ cc_error' = upstream.exc
            /\ out' = out \o ErrorTail(upstream.exc)
            /\ cc_pc' = "done"
            /\ UNCHANGED stream_status
    /\ UNCHANGED <<max_retries, retry_delay, seen, attempt, rq_pc, requests, sleeps, last_error, resp, raised>>
    /\ UNCHANGED <<cc_token, cc_messages, create_status, create_requests, chat_id, lines>>

\* One turn of "async for line in resp.aiter_lines()": "skip" for a line
\* that is passed over, "break" on [DONE], "raise" when the extraction or
\* the concatenation fails, else the content to emit.
LineEffectNoCatch(line) ==
    IF line.prefix # "data: " THEN "skip"
    ELSE IF line.body.json = "[DONE]" THEN "break"
    ELSE IF line.body.json = "malformed" THEN "raise"
    ELSE LET content == ExtractContent(line.body) IN
         IF content = Raises \/ content = Number THEN "raise"
         ELSE IF Truthy(content) THEN content
         ELSE "skip"

LineEffectNoBreak(line) ==
    IF line.prefix # "data: " THEN "skip"
    ELSE IF line.body.json = "malformed" \/ line.body.json = "[DONE]" THEN "skip"
    ELSE LET content == ExtractContent(line.body) IN
         IF content = Raises \/ content = Number THEN "raise"
         ELSE IF Truthy(content) THEN content
         ELSE "skip"

LineEffect(line) ==
    IF line.prefix # "data: " THEN "skip"
    ELSE IF line.body.json = "[DONE]" THEN "break"
    ELSE IF line.body.json = "malformed" THEN "skip"
    ELSE LET content == ExtractContent(line.body) IN
         IF content = Raises \/ content = Number THEN "raise"
         ELSE IF Truthy(content) THEN content
         ELSE "skip"

ReadLine(line) ==
    /\ cc_pc = "lines"
    /\ Len(lines) < MaxLines
    /\ lines' = Append(lines, line)
    /\ LET effect == LineEffect(line) IN
       IF effect = "skip"
       THEN UNCHANGED <<out, cc_pc, cc_error>>
       ELSE IF effect = "break"
            THEN /\ out' = out \o StreamTail
                 /\ cc_pc' = "done"
                 /\ UNCHANGED cc_error
            ELSE IF effect = "raise"
                 THEN /\ cc_error' = "TypeError"
                      /\ out' = out \o ErrorTail("TypeError")
                      /\ cc_pc' = "done"
                 ELSE /\ out' = Append(out, DataChunk(RequestId, effect, "none"))
                      /\ UNCHANGED <<cc_pc, cc_error>>
    /\ UNCHANGED retryVars
    /\ UNCHANGED <<cc_token, cc_messages, create_status, create_requests, chat_id, stream_requests, stream_status>>

\* The upstream closes the body: the loop ends without [DONE].
StreamClosed ==
    /\ cc_pc = "lines"
    /\ out' = out \o StreamTail
    /\ cc_pc' = "done"
    /\ UNCHANGED retryVars
    /\ UNCHANGED <<cc_token, cc_messages, create_status, create_requests, chat_id,
                   stream_requests, stream_status, lines, cc_error>>

\* Reading the body fails (httpx.ReadError): caught by chat_completion.
ReadFailed ==
    /\ cc_pc = "lines"
    /\ cc_error' = "ReadError"
    /\ out' = out \o ErrorTail("ReadError")
    /\ cc_pc' = "done"
    /\ UNCHANGED retryVars
    /\ UNCHANGED <<cc_token, cc_messages, create_status, create_requests, chat_id,
                   stream_requests, stream_status, lines>>

ChatFrame == UNCHANGED poolVars /\ UNCHANGED hist /\ UNCHANGED concVars /\ UNCHANGED dispVars /\ UNCHANGED anthVars /\ UNCHANGED extractVars /\ UNCHANGED sideVars

NextChat ==
    \/ CheckArguments /\ ChatFrame
    \/ Begin /\ UNCHANGED chatVars /\ ChatFrame
    \/ SendRequest /\ UNCHANGED chatVars /\ ChatFrame
    \/ BackoffSleep /\ UNCHANGED chatVars /\ ChatFrame
    \/ CreateReturned /\ ChatFrame
    \/ CreateRaised /\ ChatFrame
    \/ StreamOpen /\ ChatFrame
    \/ \E line \in Lines : ReadLine(line) /\ ChatFrame
    \/ StreamClosed /\ ChatFrame
    \/ ReadFailed /\ ChatFrame

SpecChat == InitChat /\ [][NextChat]_vars

(***************************************************************************)
(* SpecCancel: chat_completion whose caller goes away while the body of    *)
(* the streamed response is being read.  The generator is then left in one *)
(* of two ways.  When it waits for the next line, the cancellation of the  *)
(* task raises CancelledError inside _stream_completion, which leaves      *)
(* `async with client.stream(...)` on its way out.  When it is suspended   *)
(* at `yield chunk`, closing it raises GeneratorExit at that yield:        *)
(* chat_completion ends, and _stream_completion, suspended inside its      *)
(* `async with`, is closed by the event loop's finalizer for asynchronous  *)
(* generators.                                                             *)
(***************************************************************************)
Interrupts == {"GeneratorExit", "CancelledError"}

\* Variant: a bare except, which catches every exception.
IsExceptionBare(exc) == TRUE

\* "except Exception as e": GeneratorExit and CancelledError derive from
\* BaseException only.
IsException(exc) == exc \notin Interrupts

\* The generator is suspended at a yield of the line loop.
AtYield ==
    /\ cc_pc = "lines"
    /\ lines # <<>>
    /\ LineEffect(lines[Len(lines)]) \notin {"skip", "break", "raise"}

\* The response of `async with client.stream(...) as resp` is open.
StreamIsOpen == cc_pc \in {"lines", "orphaned"}

CallerDisconnects ==
    /\ cc_pc = "lines"
    /\ \E exc \in Interrupts :
          /\ exc = "GeneratorExit" => AtYield
          /\ cc_error' = exc
          /\ IF IsException(exc)
             THEN /\ out' = out \o ErrorTail(exc)
                  /\ cc_pc' = "done"
             ELSE /\ out' = out
                  /\ cc_pc' = IF exc = "GeneratorExit" THEN "orphaned" ELSE "closed"
    /\ UNCHANGED retryVars
    /\ UNCHANGED <<cc_token, cc_messages, create_status, create_requests, chat_id,
                   stream_requests, stream_status, lines>>

\* aclose() on _stream_completion: GeneratorExit at its yield, and the
\* `async with` closes the response.
FinalizerCloses ==
    /\ cc_pc = "orphaned"
    /\ cc_pc' = "closed"
    /\ UNCHANGED retryVars
    /\ UNCHANGED <<cc_token, cc_messages, create_status, create_requests, chat_id,
                   stream_requests, stream_status, lines, cc_error, out>>

NextCancel ==
    \/ CheckArguments /\ ChatFrame
    \/ Begin /\ UNCHANGED chatVars /\ ChatFrame
    \/ SendRequest /\ UNCHANGED chatVars /\ ChatFrame
    \/ BackoffSleep /\ UNCHANGED chatVars /\ ChatFrame
    \/ CreateReturned /\ ChatFrame
    \/ CreateRaised /\ ChatFrame
    \/ StreamOpen /\ ChatFrame
    \/ \E line \in Lines : ReadLine(line) /\ ChatFrame
    \/ StreamClosed /\ ChatFrame
    \/ ReadFailed /\ ChatFrame
    \/ CallerDisconnects /\ ChatFrame
    \/ FinalizerCloses /\ ChatFrame

\* The event loop runs the finalizer it has scheduled.
SpecCancel == InitChat /\ [][NextCancel]_vars /\ WF_vars(FinalizerCloses /\ ChatFrame)

(***************************************************************************)
(* The two endpoints of main.py: chat_completions (OpenAI dialect) and     *)
(* anthropic_messages (Anthropic dialect, streamed or not), each handling  *)
(* one request against the account pool and the module-level provider.     *)
(***************************************************************************)
Endpoints == {"openai", "anthropic_stream", "anthropic_json"}

\* The rows the pool can hold when a request arrives: ids 1..n, each active
\* or not.
DispatchPools ==
    UNION {{{[NewRow(i, IF i % 2 = 1 THEN "tokA" ELSE "tokB", "NULL") EXCEPT !.is_active = act[i]] :
                i \in 1..n} : act \in [1..n -> {0, 1}]} : n \in 0..MaxAccounts}

\* Variant: ORDER BY id DESC.
RowsByIdDesc(rows) ==
    CHOOSE seq \in [1..Cardinality(rows) -> rows] :
        \A i, j \in 1..Cardinality(rows) : i < j => seq[i].id > seq[j].id

\* "ORDER BY id ASC" and fetchall()
RowsById(rows) ==
    CHOOSE seq \in [1..Cardinality(rows) -> rows] :
        \A i, j \in 1..Cardinality(rows) : i < j => seq[i].id < seq[j].id

\* db_manager.add_log(account["name"], model, status, duration)
LogEntry(row, status) == [account |-> row.id, status |-> status]

\* The lines a streamed body is made of in a dispatch.
DispatchLines ==
    {DoneLine,
     DataLine(JsonObject("entry", "object", "Hi", Absent)),
     DataLine(Payload("scalar", "absent", "absent", Absent, Absent))}

InitDispatch ==
    /\ accounts \in DispatchPools
    /\ next_id = MaxAccounts + 1
    /\ last_used_account_id \in 0..MaxAccounts
    /\ db_lock = NoThread
    /\ last_call = Call("__init__", "", None, None, NoRow)
    /\ hist = <<>>
    /\ ConcIdle
    /\ max_retries = OrDefault(None, HTTP_MAX_RETRIES)
    /\ retry_delay = OrDefault(None, HTTP_RETRY_DELAY)
    /\ upstream = NoResp
    /\ seen = <<>>
    /\ attempt = 0
    /\ rq_pc = "idle"
    /\ requests = 0
    /\ sleeps = <<>>
    /\ last_error = "none"
    /\ resp = NoResp
    /\ raised = "none"
    /\ cc_pc = "idle"
    /\ cc_token = ""
    /\ cc_messages \in Messages
    /\ create_status = 0
    /\ create_requests = 0
    /\ chat_id = ""
    /\ stream_requests = 0
    /\ stream_status = 0
    /\ lines = <<>>
    /\ cc_error = "none"
    /\ out = <<>>
    /\ endpoint \in Endpoints
    /\ d_pc = "select"
    /\ d_attempt = 0
    /\ d_list = <<>>
    /\ d_account = NoRow
    /\ tried = <<>>
    /\ logs = <<>>
    /\ http_status = 0
    /\ AnthIdle
    /\ ExtractIdle
    /\ SideIdle

\* provider.chat_completion(request_data, account["token"]): a generator
\* that has not run yet.
StartChat(token) ==
    /\ cc_pc' = "start"
    /\ cc_token' = token
    /\ create_status' = 0
    /\ create_requests' = 0
    /\ chat_id' = ""
    /\ stream_requests' = 0
    /\ stream_status' = 0
    /\ lines' = <<>>
    /\ cc_error' = "none"
    /\ out' = <<>>
    /\ upstream' \in Outcomes
    /\ UNCHANGED <<cc_messages, max_retries, retry_delay, seen, attempt, rq_pc, requests, sleeps,
                   last_error, resp, raised>>

\* raise HTTPException(status_code=503)
Unavailable ==
    /\ http_status' = 503
    /\ d_pc' = "responded"

\* chat_completions: one turn of "for attempt in range(max_retries)" up to
\* the try block.
OaAttempts == 3

OaSelect ==
    /\ endpoint = "openai"
    /\ d_pc = "select"
    /\ d_attempt < OaAttempts
    /\ get_next_account("round_robin")
    /\ d_account' = last_call'.result
    /\ IF last_call'.result = NoRow
       THEN Unavailable
       ELSE /\ d_pc' = "call"
            /\ UNCHANGED http_status
    /\ UNCHANGED <<endpoint, d_attempt, d_list, tried, logs>>
    /\ UNCHANGED <<hist, concVars, retryVars, chatVars, anthVars, extractVars, sideVars>>

\* The loop is over: every turn ended in the except branch.
OaExhausted ==
    /\ endpoint = "openai"
    /\ d_pc = "select"
    /\ d_attempt = OaAttempts
    /\ Unavailable
    /\ UNCHANGED <<endpoint, d_attempt, d_list, d_account, tried, logs>>
    /\ UNCHANGED <<poolVars, hist, concVars, retryVars, chatVars, anthVars, extractVars, sideVars>>

\* The try block: the generator is made, the statistics and the log are
\* written and the response is returned; the generator runs afterwards.
OaCall ==
    /\ endpoint = "openai"
    /\ d_pc = "call"
    /\ StartChat(d_account.token)
    /\ update_stats(d_account.id)
    /\ tried' = Append(tried, d_account.id)
    /\ logs' = Append(logs, LogEntry(d_account, "SUCCESS"))
    /\ http_status' = 200
    /\ d_pc' = "stream"
    /\ UNCHANGED <<endpoint, d_attempt, d_list, d_account>>
    /\ UNCHANGED <<hist, concVars, anthVars, extractVars, sideVars>>

\* The except branch: update_stats raised (sqlite3.Error).
OaCallFailed ==
    /\ endpoint = "openai"
    /\ d_pc = "call"
    /\ tried' = Append(tried, d_account.id)
    /\ logs' = Append(logs, LogEntry(d_account, "ERROR"))
    /\ d_attempt' = d_attempt + 1
    /\ d_pc' = "select"
    /\ UNCHANGED <<endpoint, d_list, d_account, http_status>>
    /\ UNCHANGED <<poolVars, hist, concVars, retryVars, chatVars, anthVars, extractVars, sideVars>>

\* anthropic_messages: get_all_accounts(active_only=True), 503 without rows.
AnList ==
    /\ endpoint \in {"anthropic_stream", "anthropic_json"}
    /\ d_pc = "select"
    /\ LockFree
    /\ IF ActiveRows(accounts) = {}
       THEN /\ Unavailable
            /\ UNCHANGED d_list
       ELSE /\ d_list' = RowsById(ActiveRows(accounts))
            /\ d_pc' = "call"
            /\ UNCHANGED http_status
    /\ UNCHANGED <<endpoint, d_attempt, d_account, tried, logs>>
    /\ UNCHANGED <<poolVars, hist, concVars, retryVars, chatVars, anthVars, extractVars, sideVars>>

\* stream = True: the generator is defined, the log is written and the
\* response is returned; the generator runs afterwards.
AnStream ==
    /\ endpoint = "anthropic_stream"
    /\ d_pc = "call"
    /\ d_attempt < Len(d_list)
    /\ d_account' = d_list[d_attempt + 1]
    /\ StartChat(d_list[d_attempt + 1].token)
    /\ tried' = Append(tried, d_list[d_attempt + 1].id)
    /\ logs' = Append(logs, LogEntry(d_list[d_attempt + 1], "SUCCESS"))
    /\ http_status' = 200
    /\ d_pc' = "stream"
    /\ UNCHANGED <<endpoint, d_attempt, d_list>>
    /\ UNCHANGED <<poolVars, hist, concVars, anthVars, extractVars, sideVars>>

\* stream = False: chat_completion is consumed inside the try block.
AnJsonCall ==
    /\ endpoint = "anthropic_json"
    /\ d_pc = "call"
    /\ d_attempt < Len(d_list)
    /\ d_account' = d_list[d_attempt + 1]
    /\ StartChat(d_list[d_attempt + 1].token)
    /\ tried' = Append(tried, d_list[d_attempt + 1].id)
    /\ d_pc' = "inline"
    /\ UNCHANGED <<endpoint, d_attempt, d_list, logs, http_status>>
    /\ UNCHANGED <<poolVars, hist, concVars, anthVars, extractVars, sideVars>>

AnJsonDone ==
    /\ d_pc = "inline"
    /\ cc_pc = "done"
    /\ logs' = Append(logs, LogEntry(d_account, "SUCCESS"))
    /\ http_status' = 200
    /\ d_pc' = "responded"
    /\ UNCHANGED <<endpoint, d_attempt, d_list, d_account, tried>>
    /\ UNCHANGED <<poolVars, hist, concVars, retryVars, chatVars, anthVars, extractVars, sideVars>>

\* The except branch: chat_completion raised.
AnJsonFailed ==
    /\ d_pc = "inline"
    /\ cc_pc = "raised"
    /\ logs' = Append(logs, LogEntry(d_account, "ERROR"))
    /\ d_attempt' = d_attempt + 1
    /\ d_pc' = "call"
    /\ UNCHANGED <<endpoint, d_list, d_account, tried, http_status>>
    /\ UNCHANGED <<poolVars, hist, concVars, retryVars, chatVars, anthVars, extractVars, sideVars>>

\* "for account in accounts" is over.
AnExhausted ==
    /\ endpoint \in {"anthropic_stream", "anthropic_json"}
    /\ d_pc = "call"
    /\ d_attempt = Len(d_list)
    /\ Unavailable
    /\ UNCHANGED <<endpoint, d_attempt, d_list, d_account, tried, logs>>
    /\ UNCHANGED <<poolVars, hist, concVars, retryVars, chatVars, anthVars, extractVars, sideVars>>

DispFrame == UNCHANGED poolVars /\ UNCHANGED hist /\ UNCHANGED concVars /\ UNCHANGED dispVars /\ UNCHANGED anthVars /\ UNCHANGED extractVars /\ UNCHANGED sideVars

NextDispatch ==
    \/ OaSelect
    \/ OaExhausted
    \/ OaCall
    \/ OaCallFailed
    \/ AnList
    \/ AnStream
    \/ AnJsonCall
    \/ AnJsonDone
    \/ AnJsonFailed
    \/ AnExhausted
    \/ CheckArguments /\ DispFrame
    \/ Begin /\ UNCHANGED chatVars /\ DispFrame
    \/ SendRequest /\ UNCHANGED chatVars /\ DispFrame
    \/ BackoffSleep /\ UNCHANGED chatVars /\ DispFrame
    \/ CreateReturned /\ DispFrame
    \/ CreateRaised /\ DispFrame
    \/ StreamOpen /\ DispFrame
    \/ \E line \in DispatchLines : ReadLine(line) /\ DispFrame
    \/ StreamClosed /\ DispFrame
    \/ ReadFailed /\ DispFrame

SpecDispatch == InitDispatch /\ [][NextDispatch]_vars

(***************************************************************************)
(* SpecMixed: the calls the two endpoints make on the account pool while   *)
(* requests of both kinds follow one another over a pool that does not     *)
(* change: chat_completions selects with get_next_account (hist keeps the  *)
(* ids it was given), anthropic_messages lists the active rows with        *)
(* get_all_accounts and walks the list.                                    *)
(***************************************************************************)
InitMixed ==
    /\ accounts \in DispatchPools
    /\ next_id = MaxAccounts + 1
    /\ last_used_account_id \in 0..MaxAccounts
    /\ db_lock = NoThread
    /\ last_call = Call("__init__", "", None, None, NoRow)
    /\ hist = <<>>
    /\ ConcIdle
    /\ RetryIdle
    /\ ChatIdle
    /\ DispIdle
    /\ AnthIdle
    /\ ExtractIdle
    /\ SideIdle

\* chat_completions: account = db_manager.get_next_account()
OpenAISelects ==
    /\ Len(hist) < MaxHist
    /\ get_next_account("round_robin")
    /\ hist' = IF last_call'.result # NoRow
               THEN Append(hist, last_call'.result.id) ELSE hist
    /\ UNCHANGED dispVars

\* anthropic_messages: accounts = db_manager.get_all_accounts(active_only=True)
AnthropicLists ==
    /\ LockFree
    /\ endpoint' = "anthropic_json"
    /\ d_list' = RowsById(ActiveRows(accounts))
    /\ d_attempt' = 0
    /\ tried' = <<>>
    /\ d_account' = NoRow
    /\ UNCHANGED <<d_pc, logs, http_status>>
    /\ UNCHANGED <<poolVars, hist>>

\* anthropic_messages: one turn of "for account in accounts"
AnthropicNext ==
    /\ endpoint = "anthropic_json"
    /\ d_attempt < Len(d_list)
    /\ d_account' = d_list[d_attempt + 1]
    /\ tried' = Append(tried, d_list[d_attempt + 1].id)
    /\ d_attempt' = d_attempt + 1
    /\ UNCHANGED <<endpoint, d_pc, d_list, logs, http_status>>
    /\ UNCHANGED <<poolVars, hist>>

MixedFrame == UNCHANGED concVars /\ UNCHANGED retryVars /\ UNCHANGED chatVars /\ UNCHANGED anthVars /\ UNCHANGED extractVars /\ UNCHANGED sideVars

NextMixed ==
    \/ OpenAISelects /\ MixedFrame
    \/ AnthropicLists /\ MixedFrame
    \/ AnthropicNext /\ MixedFrame

SpecMixed == InitMixed /\ [][NextMixed]_vars

(***************************************************************************)
(* _extract_content and the use _stream_completion makes of its result,    *)
(* applied to one parsed payload.                                          *)
(***************************************************************************)
InitExtract ==
    /\ PoolInit
    /\ ConcIdle
    /\ RetryIdle
    /\ ChatIdle
    /\ DispIdle
    /\ AnthIdle
    /\ SideIdle
    /\ ex_pc = "input"
    /\ ex_payload \in {p \in Payloads : p.json \in {"scalar", "object"}}
    /\ ex_content = ""
    /\ ex_effect = ""

Extract ==
    /\ ex_pc = "input"
    /\ ex_content' = ExtractContent(ex_payload)
    /\ ex_effect' = LineEffect(DataLine(ex_payload))
    /\ ex_pc' = "done"
    /\ UNCHANGED ex_payload
    /\ UNCHANGED <<poolVars, hist, concVars, retryVars, chatVars, dispVars, anthVars, sideVars>>

NextExtract == Extract

SpecExtract == InitExtract /\ [][NextExtract]_vars

(***************************************************************************)
(* anthropic_stream_generator of anthropic_messages: it pulls the chunks   *)
(* of chat_completion one by one and turns them into Anthropic events.     *)
(***************************************************************************)
Event(type, text, tokens) == [type |-> type, text |-> text, output_tokens |-> tokens]

MessageStart == Event("message_start", "", 0)
ContentBlockStart == Event("content_block_start", "", 0)
ContentBlockDelta(text) == Event("content_block_delta", text, 0)
ContentBlockStop == Event("content_block_stop", "", 0)
MessageStop == Event("message_stop", "", 0)

Max(a, b) == IF a >= b THEN a ELSE b

\* "usage": {"output_tokens": max(output_tokens, 1)}
MessageDelta(tokens) == Event("message_delta", "", Max(tokens, 1))

\* The content the generator finds in one chunk: none in [DONE] and in an
\* object without "choices".
ChunkText(item) ==
    IF item.prefix = "data: " /\ item.json.kind = "chunk" THEN item.json.content ELSE ""

\* Variant: "if content:" left out.
RECURSIVE DeltasOfUnfiltered(_)
DeltasOfUnfiltered(items) ==
    IF items = <<>> THEN <<>>
    ELSE <<ContentBlockDelta(ChunkText(Head(items)))>> \o DeltasOfUnfiltered(Tail(items))

\* The content_block_delta events for the chunks pulled.
RECURSIVE DeltasOf(_)
DeltasOf(items) ==
    IF items = <<>> THEN <<>>
    ELSE IF Truthy(ChunkText(Head(items)))
         THEN <<ContentBlockDelta(ChunkText(Head(items)))>> \o DeltasOf(Tail(items))
         ELSE DeltasOf(Tail(items))

\* output_tokens += len(content) // 4, for the chunks pulled
RECURSIVE TokensOf(_)
TokensOf(items) ==
    IF items = <<>> THEN 0
    ELSE (Len(ChunkText(Head(items))) \div 4) + TokensOf(Tail(items))

\* full_content += content, for the chunks pulled
RECURSIVE TextIn(_)
TextIn(items) ==
    IF items = <<>> THEN ""
    ELSE IF Truthy(ChunkText(Head(items)))
         THEN ChunkText(Head(items)) \o TextIn(Tail(items))
         ELSE TextIn(Tail(items))

\* The non-streamed branch: output_tokens = len(full_content) // 4, reported
\* as max(output_tokens, 1).
NonStreamedUsage(text) == Max(Len(text) \div 4, 1)

\* The events after the loop.
Closing(tokens) == <<ContentBlockStop, MessageDelta(tokens), MessageStop>>

InitAnth == InitChat

\* The generator starts: two events before chat_completion is called.
AnthBegin ==
    /\ cc_pc = "start"
    /\ events = <<>>
    /\ events' = <<MessageStart, ContentBlockStart>>
    /\ UNCHANGED <<output_tokens, full_content>>
    /\ UNCHANGED <<poolVars, hist, concVars, retryVars, chatVars, dispVars, extractVars, sideVars>>

\* The loop body for the chunks a step of chat_completion yields, and the
\* closing events once chat_completion is exhausted.
Translate ==
    /\ events # <<>>
    /\ output_tokens' = output_tokens + TokensOf(SubSeq(out', Len(out) + 1, Len(out')))
    /\ full_content' = full_content \o TextIn(SubSeq(out', Len(out) + 1, Len(out')))
    /\ events' = events \o DeltasOf(SubSeq(out', Len(out) + 1, Len(out')))
                         \o (IF cc_pc' = "done" /\ cc_pc # "done" THEN Closing(output_tokens') ELSE <<>>)

AnthFrame == UNCHANGED poolVars /\ UNCHANGED hist /\ UNCHANGED concVars /\ UNCHANGED dispVars /\ UNCHANGED extractVars /\ UNCHANGED sideVars

NextAnth ==
    \/ AnthBegin
    \/ CheckArguments /\ Translate /\ AnthFrame
    \/ Begin /\ UNCHANGED chatVars /\ Translate /\ AnthFrame
    \/ SendRequest /\ UNCHANGED chatVars /\ Translate /\ AnthFrame
    \/ BackoffSleep /\ UNCHANGED chatVars /\ Translate /\ AnthFrame
    \/ CreateReturned /\ Translate /\ AnthFrame
    \/ CreateRaised /\ Translate /\ AnthFrame
    \/ StreamOpen /\ Translate /\ AnthFrame
    \/ \E line \in Lines : ReadLine(line) /\ Translate /\ AnthFrame
    \/ StreamClosed /\ Translate /\ AnthFrame
    \/ ReadFailed /\ Translate /\ AnthFrame

SpecAnth == InitAnth /\ [][NextAnth]_vars

(***************************************************************************)
(* SpecLimit: RateLimiter(requests, window) and its is_allowed, called for *)
(* the keys the middleware derives from the requests.  time.time() is      *)
(* counted in whole seconds and does not go back.                          *)
(***************************************************************************)
\* ts > window_start
Fresh(ts, window_start) == ts > window_start

\* [ts for ts in self._requests[key] if ts > window_start]
Pruned(stamps, window_start) == SelectSeq(stamps, LAMBDA ts : Fresh(ts, window_start))

\* Variant: len(self._requests[key]) > self.requests.
OverLimitAbove(n, limit) == n > limit

\* if len(self._requests[key]) >= self.requests
OverLimit(n, limit) == n >= limit

is_allowed(key, now) ==
    LET kept == Pruned(rl_store[key], now - rl_window) IN
    /\ rl_now' = now
    /\ IF OverLimit(Len(kept), rl_requests)
       THEN /\ rl_store' = [rl_store EXCEPT ![key] = kept]
            /\ rl_last' = [key |-> key, allowed |-> FALSE, remaining |-> 0, before |-> rl_store]
            /\ UNCHANGED rl_admitted
       ELSE /\ rl_store' = [rl_store EXCEPT ![key] = Append(kept, now)]
            /\ rl_last' = [key |-> key, allowed |-> TRUE,
                           remaining |-> rl_requests - Len(Append(kept, now)),
                           before |-> rl_store]
            /\ rl_admitted' = [rl_admitted EXCEPT ![key] = Append(rl_admitted[key], now)]
    /\ UNCHANGED <<rl_requests, rl_window>>

InitLimit ==
    /\ PoolInit
    /\ ConcIdle
    /\ RetryIdle
    /\ ChatIdle
    /\ DispIdle
    /\ AnthIdle
    /\ ExtractIdle
    /\ StampIdle
    /\ ClientIdle
    /\ rl_requests \in 0..MaxLimit
    /\ rl_window \in 1..MaxWindow
    /\ rl_now = 0
    /\ rl_store = [k \in Keys |-> <<>>]
    /\ rl_admitted = [k \in Keys |-> <<>>]
    /\ rl_last = NoKeyCall

LimitFrame == UNCHANGED poolVars /\ UNCHANGED hist /\ UNCHANGED concVars /\ UNCHANGED retryVars /\ UNCHANGED chatVars /\ UNCHANGED dispVars /\ UNCHANGED anthVars /\ UNCHANGED extractVars /\ UNCHANGED stampVars /\ UNCHANGED clientVars

NextLimit == \E key \in Keys, now \in rl_now..MaxTime : is_allowed(key, now) /\ LimitFrame

SpecLimit == InitLimit /\ [][NextLimit]_vars

(***************************************************************************)
(* SpecClient: HTTPClientManager.  get_client has no await and runs in one *)
(* step.  close() awaits self._client.aclose() between its test and        *)
(* `self._client = None`, so other coroutines run in between; as in httpx, *)
(* the client reports is_closed from the moment aclose() has started.      *)
(***************************************************************************)
\* self._client is None or self._client.is_closed
NeedsClient == hc_client = NoClient \/ hc_client \notin hc_open

get_client(d) ==
    /\ IF NeedsClient
       THEN /\ hc_made < MaxClients
            /\ hc_made' = hc_made + 1
            /\ hc_client' = hc_made + 1
            /\ hc_open' = hc_open \cup {hc_made + 1}
            /\ hc_last' = [op |-> "get_client", client |-> hc_made + 1, built |-> TRUE]
       ELSE /\ hc_last' = [op |-> "get_client", client |-> hc_client, built |-> FALSE]
            /\ UNCHANGED <<hc_client, hc_open, hc_made>>
    /\ hc_held' = [hc_held EXCEPT ![d] = hc_client']
    /\ UNCHANGED hc_closing

\* close(): the test passes and aclose() runs up to its first suspension.
CloseBegin ==
    /\ hc_closing = NoClient
    /\ ~NeedsClient
    /\ hc_open' = hc_open \ {hc_client}
    /\ hc_closing' = hc_client
    /\ UNCHANGED <<hc_client, hc_made, hc_held, hc_last>>

\* close(): aclose() has returned; self._client = None.
CloseEnd ==
    /\ hc_closing # NoClient
    /\ hc_client' = NoClient
    /\ hc_last' = [op |-> "close", client |-> hc_closing, built |-> FALSE]
    /\ hc_closing' = NoClient
    /\ UNCHANGED <<hc_open, hc_made, hc_held>>

\* close(): the test fails, nothing is done.
CloseNothing ==
    /\ hc_closing = NoClient
    /\ NeedsClient
    /\ hc_last' = [op |-> "close", client |-> NoClient, built |-> FALSE]
    /\ UNCHANGED <<hc_client, hc_open, hc_made, hc_closing, hc_held>>

InitClient ==
    /\ PoolInit
    /\ ConcIdle
    /\ RetryIdle
    /\ ChatIdle
    /\ DispIdle
    /\ AnthIdle
    /\ ExtractIdle
    /\ SideIdle

ClientFrame == UNCHANGED poolVars /\ UNCHANGED hist /\ UNCHANGED concVars /\ UNCHANGED retryVars /\ UNCHANGED chatVars /\ UNCHANGED dispVars /\ UNCHANGED anthVars /\ UNCHANGED extractVars /\ UNCHANGED stampVars /\ UNCHANGED limitVars

NextClient ==
    \/ \E d \in Dispatches : get_client(d) /\ ClientFrame
    \/ CloseBegin /\ ClientFrame
    \/ CloseEnd /\ ClientFrame
    \/ CloseNothing /\ ClientFrame

SpecClient == InitClient /\ [][NextClient]_vars

\* close() when aclose() returns without a suspension: test, aclose() and
\* `self._client = None` in one step.
CloseUnsuspended ==
    /\ hc_closing = NoClient
    /\ ~NeedsClient
    /\ hc_open' = hc_open \ {hc_client}
    /\ hc_client' = NoClient
    /\ hc_last' = [op |-> "close", client |-> hc_client, built |-> FALSE]
    /\ UNCHANGED <<hc_made, hc_closing, hc_held>>

NextClientSeq ==
    \/ \E d \in Dispatches : get_client(d) /\ ClientFrame
    \/ CloseUnsuspended /\ ClientFrame
    \/ CloseNothing /\ ClientFrame

\* The manager with no call made while a close() is suspended.
SpecClientSeq == InitClient /\ [][NextClientSeq]_vars

(***************************************************************************)
(* Properties of the account pool.                                         *)
(***************************************************************************)
ActiveIds == {r.id : r \in ActiveRows(accounts)}
MinOf(S) == CHOOSE a \in S : \A b \in S : a <= b
\* the id after a in ascending cyclic order over the non-empty set S
CyclicSucc(S, a) == IF \E b \in S : b > a THEN MinOf({b \in S : b > a}) ELSE MinOf(S)
Count(seq, x) == Cardinality({k \in 1..Len(seq) : seq[k] = x})
Selected == last_call.op = "get_next_account"
SelectedBy(strategy) == Selected /\ last_call.strategy = strategy

\* C1: N round_robin selections over a fixed set of M active records (M <= N)
\* return every active id floor(N/M) or ceil(N/M) times, and each returned id
\* is the cyclic successor, in ascending id order, of the one returned before.
C1_FairShare ==
    LET M == Cardinality(ActiveIds)
        N == Len(hist)
    IN /\ \A k \in 1..N : hist[k] \in ActiveIds
       /\ \A k \in 1..(N - 1) : hist[k + 1] = CyclicSucc(ActiveIds, hist[k])
       /\ (M >= 1 /\ M <= N) =>
             \A a \in ActiveIds :
                \/ Count(hist, a) = N \div M
                \/ Count(hist, a) = (N + M - 1) \div M

C1_Witness ==
    /\ Cardinality(ActiveIds) = 3
    /\ Len(hist) = 4
    /\ \E a \in ActiveIds : Count(hist, a) = 2
    /\ \E a \in ActiveIds : Count(hist, a) = 1

\* C2: whatever the policy and whatever was done to the table before, the
\* record get_next_account returns is a row of the table whose is_active is 1
\* at the moment of the call.
C2_NeverInactive ==
    (Selected /\ last_call.result # NoRow) =>
        /\ last_call.result \in accounts
        /\ last_call.result.is_active = 1

C2_Witness ==
    /\ SelectedBy("random")
    /\ last_call.result # NoRow
    /\ \E r \in accounts : r.is_active = 0
    /\ \E r \in accounts : r.is_active = 0 /\ r.id < last_call.result.id

\* C3: one round_robin call with cursor c returns the active record with the
\* smallest id greater than c, or the active record with the smallest id when
\* none is greater or c is none; afterwards the cursor is the returned id.
C3_RoundRobinStep ==
    (SelectedBy("round_robin") /\ ActiveIds # {}) =>
        LET c == last_call.before
            got == last_call.result.id
        IN /\ got \in ActiveIds
           /\ IF c # None /\ \E a \in ActiveIds : a > c
              THEN got > c /\ \A a \in ActiveIds : a > c => got <= a
              ELSE \A a \in ActiveIds : got <= a
           /\ last_used_account_id = got

C3_Witness ==
    /\ SelectedBy("round_robin")
    /\ last_call.before = 1
    /\ last_call.result.id = 2
    /\ ActiveIds = {1, 2, 3}

\* C4: with no active record get_next_account returns none under every
\* policy and the round-robin cursor stays what it was.
C4_EmptyPool ==
    (Selected /\ ActiveIds = {}) =>
        /\ last_call.result = NoRow
        /\ last_used_account_id = last_call.before

C4_Witness ==
    /\ SelectedBy("round_robin")
    /\ ActiveIds = {}
    /\ accounts # {}
    /\ last_call.before # None
    /\ last_call.result = NoRow

\* C5: when the record the cursor points to has been deactivated, the next
\* round_robin call returns the next active record after the cursor in
\* ascending cyclic order, and any call made while some record is active
\* returns an active record.
C5_SkipDeactivated ==
    /\ (SelectedBy("round_robin") /\ ActiveIds # {}
          /\ \E r \in accounts : r.id = last_call.before /\ r.is_active = 0)
       => last_call.result.id = CyclicSucc(ActiveIds, last_call.before)
    /\ (Selected /\ ActiveIds # {}) => last_call.result \in ActiveRows(accounts)

C5_Witness ==
    /\ SelectedBy("round_robin")
    /\ \E r \in accounts : r.id = last_call.before /\ r.is_active = 0
    /\ last_call.result # NoRow
    /\ Cardinality(ActiveIds) >= 2

InCall == {"locked", "wrap", "store", "unlock"}
HasRead == {"wrap", "store", "unlock"}

C7_AtomicSelect ==
    /\ \A t \in Threads : th_pc[t] = "unlock" => th_row[t] = th_expect[t]
    /\ LockFree => last_used_account_id = seq_cursor
    /\ \A t, u \in Threads :
          (t # u /\ th_pc[t] \in InCall) => th_pc[u] \notin InCall
    /\ \A t, u \in Threads :
          (t # u /\ th_pc[t] \in HasRead /\ th_pc[u] \in HasRead
             /\ Cardinality(ActiveIds) >= 2)
          => ~(th_cursor[t] = th_cursor[u] /\ th_row[t] = th_row[u])

C7_Witness ==
    /\ th_pc[1] = "unlock"
    /\ th_pc[2] = "waiting"
    /\ th_row[1] # NoRow
    /\ th_cursor[1] # None
    /\ Cardinality(ActiveIds) >= 2
    /\ last_call.op = "get_next_account"

\* The ids handed out by the AUTOINCREMENT sequence whose row is gone.
DeletedIds == {i \in 1..(next_id - 1) : \A r \in accounts : r.id # i}

\* C38: a round_robin call whose cursor names a deleted record returns the
\* active record with the smallest id above the cursor, or the one with
\* the smallest id when none is above; and no selection, under any policy,
\* returns a record that was deleted.
C38_StaleCursorHarmless ==
    /\ (SelectedBy("round_robin") /\ last_call.before \in DeletedIds /\ ActiveIds # {})
          => last_call.result.id = CyclicSucc(ActiveIds, last_call.before)
    /\ (Selected /\ last_call.result # NoRow) => last_call.result.id \notin DeletedIds

\* The cursor was 2, record 2 is deleted, records 1 and 3 are active and
\* round_robin returned 3.
C38_Witness ==
    /\ SelectedBy("round_robin")
    /\ last_call.before = 2
    /\ 2 \in DeletedIds
    /\ ActiveIds = {1, 3}
    /\ last_call.result.id = 3

(***************************************************************************)
(* Properties of the pool with its timestamp columns (SpecStamps).         *)
(***************************************************************************)
\* The step just taken is update_token on a row of the table.
RefreshStep == last_call'.op = "update_token" /\ HasRow(last_call'.id)

\* C31: update_token on a record stores the given token, an expiry of now
\* plus three hours and is_active = 1, whatever is_active was, and leaves
\* the record's total_calls and last_used_at and the round-robin cursor as
\* they were; a get_next_account that returns a refreshed record returns it
\* with the token the last refresh stored.
C31_RefreshReplacesToken ==
    [][/\ RefreshStep =>
            LET i == last_call'.id
                old == RowOf(accounts, i)
                new == RowOf(accounts', i)
            IN /\ new.token = new_token'[i]
               /\ cols'[i].expires_at = clock' + TokenLifeHours
               /\ new.is_active = 1
               /\ new.total_calls = old.total_calls
               /\ cols'[i].last_used_at = cols[i].last_used_at
               /\ last_used_account_id' = last_used_account_id
       /\ (/\ last_call'.op = "get_next_account"
           /\ last_call'.result # NoRow
           /\ new_token'[last_call'.result.id] # "")
          => last_call'.result.token = new_token'[last_call'.result.id]
      ]_vars

\* A record that was used, then refreshed to another token at a later hour,
\* has been handed out by get_next_account.
C31_Witness ==
    /\ last_call.op = "get_next_account"
    /\ last_call.result # NoRow
    /\ last_call.result.token = "tokB"
    /\ new_token[last_call.result.id] = "tokB"
    /\ last_call.result.total_calls = 1
    /\ cols[last_call.result.id].last_used_at # 0
    /\ cols[last_call.result.id].last_refresh_at > cols[last_call.result.id].last_used_at

\* The step just taken is update_stats on a row of the table.
StatsStep == last_call'.op = "update_stats" /\ HasRow(last_call'.id)

\* C37: update_stats(id) adds exactly 1 to total_calls of record id and
\* stamps its last_used_at with the time read; the record's token, expiry,
\* last_refresh_at and is_active, every other record and its columns, and
\* the round-robin cursor stay as they were.  No step of any operation
\* lowers total_calls of a record.
C37_StatsOnly ==
    [][/\ StatsStep =>
            LET i == last_call'.id
                old == RowOf(accounts, i)
                new == RowOf(accounts', i)
            IN /\ new = [old EXCEPT !.total_calls = old.total_calls + 1]
               /\ cols'[i] = [cols[i] EXCEPT !.last_used_at = clock']
               /\ \A r \in accounts : r.id # i => r \in accounts'
               /\ \A r \in accounts' : r.id # i => r \in accounts
               /\ \A j \in Ids : j # i => cols'[j] = cols[j]
               /\ last_used_account_id' = last_used_account_id
       /\ \A r \in accounts :
             HasRow(r.id)' => RowOf(accounts', r.id).total_calls >= r.total_calls
      ]_vars

\* update_stats has counted a call on a deactivated record while another
\* record is in the table.
C37_Witness ==
    /\ last_call.op = "update_stats"
    /\ HasRow(last_call.id)
    /\ RowOf(accounts, last_call.id).total_calls = 1
    /\ RowOf(accounts, last_call.id).is_active = 0
    /\ cols[last_call.id].last_used_at = clock
    /\ \E r \in accounts : r.id # last_call.id /\ r.is_active = 1

(***************************************************************************)
(* Properties of _request_with_retry.                                      *)
(***************************************************************************)
Is5xx(o) == o.exc = "none" /\ o.status >= 500
IsBelow500(o) == o.exc = "none" /\ o.status < 500
Ended == rq_pc \in {"returned", "raised"}

\* C8: at most max_retries requests are issued; when the first max_retries
\* responses all have status >= 500 the call has failed after exactly
\* max_retries requests, whatever the upstream would answer next.
C8_AtMostMaxRetries ==
    /\ requests <= max_retries
    /\ (requests >= max_retries /\ \A k \in 1..max_retries : Is5xx(seen[k]))
       => /\ rq_pc = "raised"
          /\ requests = max_retries
          /\ resp = NoResp

C8_Witness ==
    /\ max_retries = 3
    /\ seen = <<Response(502), Response(502), Response(502)>>
    /\ upstream = Response(200)
    /\ rq_pc = "raised"
    /\ requests = 3

\* C9: the first response with a status below 500 is returned at once: it
\* is the last request issued and no backoff sleep follows it.
C9_Below500Returned ==
    \A k \in 1..Len(seen) :
       IsBelow500(seen[k]) =>
          /\ k = Len(seen)
          /\ requests = k
          /\ rq_pc = "returned"
          /\ resp = seen[k]
          /\ Len(sleeps) = k - 1

C9_Witness ==
    /\ seen = <<Response(502), Response(401)>>
    /\ rq_pc = "returned"
    /\ resp = Response(401)
    /\ Len(sleeps) = 1

\* C10: the k-th wait lies between failed attempt k and attempt k+1, with
\* k < max_retries, and lasts retry_delay * k; nothing is waited after the
\* final attempt.
C10_LinearBackoff ==
    /\ \A k \in 1..Len(sleeps) : sleeps[k] = retry_delay * k /\ k < max_retries
    /\ rq_pc = "request" => Len(sleeps) = requests
    /\ rq_pc = "sleep" => Len(sleeps) = requests - 1 /\ requests < max_retries
    /\ (Ended /\ requests >= 1) => Len(sleeps) = requests - 1

C10_Witness ==
    /\ retry_delay = 2
    /\ max_retries = 3
    /\ sleeps = <<2, 4>>
    /\ requests = 3
    /\ rq_pc = "raised"

\* C11: when the attempts are exhausted the error raised is the last connect
\* error or read timeout among the attempts, and it is the generic error only
\* if every attempt ended in a 5xx response.
RetriedAt == {k \in 1..Len(seen) : Retried(seen[k].exc)}
AttemptsExhausted ==
    /\ rq_pc = "raised"
    /\ requests = max_retries
    /\ Is5xx(seen[Len(seen)]) \/ Retried(seen[Len(seen)].exc)

C11_LastErrorRaised ==
    AttemptsExhausted =>
       /\ RetriedAt # {} =>
             \E k \in RetriedAt : /\ \A j \in RetriedAt : j <= k
                                  /\ raised = seen[k].exc
       /\ RetriedAt = {} => raised = "MaxRetries"
       /\ raised = "MaxRetries" => \A k \in 1..Len(seen) : Is5xx(seen[k])

C11_Witness ==
    /\ AttemptsExhausted
    /\ seen = <<Exception("ConnectError"), Exception("ReadTimeout"), Response(502)>>
    /\ raised = "ReadTimeout"

\* C34: of the exceptions a request attempt raises only ConnectError and
\* ReadTimeout are followed by another attempt; any other exception is the
\* last outcome seen, it is what the call raises, and no backoff sleep
\* follows it.
C34_OnlyTwoRetried ==
    \A k \in 1..Len(seen) :
       /\ (seen[k].exc # "none" /\ k < Len(seen))
             => seen[k].exc \in {"ConnectError", "ReadTimeout"}
       /\ seen[k].exc \notin {"none", "ConnectError", "ReadTimeout"}
             => /\ k = Len(seen)
                /\ rq_pc = "raised"
                /\ raised = seen[k].exc
                /\ requests = k
                /\ Len(sleeps) = k - 1

\* A connect error was retried, and the connect timeout that the second
\* attempt raised ended the call with a third attempt still allowed.
C34_Witness ==
    /\ max_retries = 3
    /\ seen = <<Exception("ConnectError"), Exception("ConnectTimeout")>>
    /\ rq_pc = "raised"
    /\ raised = "ConnectTimeout"
    /\ Len(sleeps) = 1

(***************************************************************************)
(* Properties of one dispatch (SpecChat).                                  *)
(***************************************************************************)

\* C12: a 401 answer to the create request is returned by the retry loop at
\* once, so it is the last create request issued; _create_chat then returns
\* no conversation without raising, chat_completion ends with the
\* token-invalid event and the stream request is never issued.
C12_UnauthorizedCreate ==
    /\ \A k \in 1..Len(seen) :
          seen[k] = Response(401) =>
             /\ k = Len(seen)
             /\ requests = k
             /\ rq_pc = "returned"
             /\ resp = Response(401)
             /\ raised = "none"
    /\ create_status = 401 =>
          /\ chat_id = ""
          /\ cc_error = "none"
          /\ cc_pc = "done"
          /\ stream_requests = 0
          /\ stream_status = 0
          /\ lines = <<>>
          /\ out = <<ErrorEvent("Token invalid or expired")>>

C12_Witness ==
    /\ create_status = 401
    /\ create_requests = 3
    /\ cc_pc = "done"

\* A text fragment of the output: a chunk with non-empty content and no
\* finish reason.
IsFragment(item) ==
    /\ item.json.kind = "chunk"
    /\ item.json.content # ""
    /\ item.json.finish_reason = "none"

\* The terminal marker: a chunk with empty content and finish reason "stop".
IsTerminal(item) ==
    /\ item.json.kind = "chunk"
    /\ item.json.content = ""
    /\ item.json.finish_reason = "stop"

ChatEnded == cc_pc \in {"done", "raised"}

\* C14: once a dispatch that has called the upstream is over, its output is
\* text fragments, then exactly one terminal marker with finish reason
\* "stop", then the [DONE] sentinel and nothing else; until then it is text
\* fragments only.
C14_FragmentsThenTerminal ==
    create_requests > 0 =>
       IF ChatEnded
       THEN /\ Len(out) >= 2
            /\ \A k \in 1..(Len(out) - 2) : IsFragment(out[k])
            /\ IsTerminal(out[Len(out) - 1])
            /\ out[Len(out)] = DoneSentinel
       ELSE \A k \in 1..Len(out) : IsFragment(out[k])

\* The stream request was answered and no exception has been caught.
StreamHealthy == stream_status # 0 /\ cc_error = "none"

\* The [DONE] line has been read.
DoneRead == \E k \in 1..Len(lines) : lines[k] = DoneLine

\* C15: the line "data: [DONE]" is the last line read: reading it ends the
\* dispatch with the terminal chunk and the sentinel, so no line after it
\* adds a fragment and the fragments emitted come from the lines before it.
C15_DoneEndsStream ==
    \A k \in 1..Len(lines) :
       lines[k] = DoneLine =>
          /\ k = Len(lines)
          /\ cc_pc = "done"
          /\ cc_error = "none"
          /\ Len(out) >= 2
          /\ SubSeq(out, Len(out) - 1, Len(out)) = StreamTail
          /\ Len(out) - 2 <= k - 1

C15_Witness ==
    /\ lines = <<DataLine(JsonObject("entry", "object", "Hi", Absent)), DoneLine>>
    /\ cc_pc = "done"
    /\ Len(out) = 3

\* A line that is dropped: empty, a comment, or data that is not JSON.
Dropped(line) ==
    \/ line.prefix = ""
    \/ line.prefix = ":"
    \/ line.prefix = "data: " /\ line.body.json = "malformed"

\* The text a well-formed data line carries: its first choice's delta
\* content, else its top-level content, "" when there is none.
TextOf(line) ==
    IF line.prefix # "data: " \/ line.body.json # "object" THEN ""
    ELSE IF line.body.choices = "entry"
         THEN IF line.body.delta = "object" /\ line.body.dcontent \in {"Hi", "World!"}
              THEN line.body.dcontent ELSE ""
         ELSE IF line.body.choices \in {"absent", "empty"} /\ line.body.content \in {"Hi", "World!"}
              THEN line.body.content ELSE ""

\* One chunk per line that carries text, in the order of the lines.
RECURSIVE FragmentsOf(_)
FragmentsOf(ls) ==
    IF ls = <<>> THEN <<>>
    ELSE IF TextOf(Head(ls)) = "" THEN FragmentsOf(Tail(ls))
         ELSE <<DataChunk(RequestId, TextOf(Head(ls)), "none")>> \o FragmentsOf(Tail(ls))

NotDropped(line) == ~Dropped(line)

\* The output before the terminal chunk and the sentinel.
Body == IF cc_pc = "done" THEN SubSeq(out, 1, Len(out) - 2) ELSE out

\* C16: an empty line, a comment line and a data line that is not JSON add
\* nothing to the output and raise nothing: the output is what the other
\* lines alone give, in their order, and an exception caught after reading
\* a line is never caught after reading one of these.
C16_DroppedSilently ==
    /\ StreamHealthy => Body = FragmentsOf(SelectSeq(lines, NotDropped))
    /\ (cc_error = "TypeError" /\ lines # <<>>) => ~Dropped(lines[Len(lines)])

C16_Witness ==
    /\ StreamHealthy
    /\ cc_pc = "lines"
    /\ lines = <<DataLine(Payload("malformed", "absent", "absent", Absent, Absent)),
                 Line(":", NoPayload),
                 DataLine(JsonObject("absent", "absent", Absent, "World!"))>>
    /\ out = <<DataChunk(RequestId, "World!", "none")>>

\* A data line whose payload is JSON but carries no text in the expected
\* place.
Misshapen(line) ==
    /\ line.prefix = "data: "
    /\ line.body.json \in {"scalar", "object"}
    /\ TextOf(line) = ""

IsErrorChunk(item) == item.json.kind = "chunk" /\ item.json.id = "error"

\* C17: a data line whose JSON payload lacks the expected fields or shape is
\* skipped: reading it raises nothing and adds no error chunk, the output
\* stays what the lines carrying text give, and the stream still ends with
\* the terminal chunk and the sentinel.
C17_MisshapenSkipped ==
    /\ \A k \in 1..Len(lines) :
          Misshapen(lines[k]) =>
             /\ cc_error # "TypeError"
             /\ \A i \in 1..Len(out) : ~IsErrorChunk(out[i])
    /\ StreamHealthy => Body = FragmentsOf(lines)
    /\ (StreamHealthy /\ cc_pc = "done") => SubSeq(out, Len(out) - 1, Len(out)) = StreamTail

\* The lines read before the last one.
Front(ls) == SubSeq(ls, 1, Len(ls) - 1)

\* C19: when the lines read are k lines carrying the texts f1..fk and then
\* [DONE], the output is k chunks with delta.content f1..fk in that order,
\* then one chunk with an empty delta and finish_reason "stop", then the
\* [DONE] sentinel; for the single text "Hi" it is two chunks and [DONE].
C19_OpenAIOutput ==
    (cc_pc = "done" /\ StreamHealthy /\ DoneRead
     /\ \A k \in 1..(Len(lines) - 1) : TextOf(lines[k]) # "")
    => /\ Len(out) = Len(lines) + 1
       /\ \A k \in 1..(Len(lines) - 1) :
             out[k] = [prefix |-> "data: ",
                       json |-> create_chat_completion_chunk(RequestId, TextOf(lines[k]), "none")]
       /\ out[Len(lines)] = [prefix |-> "data: ",
                              json |-> create_chat_completion_chunk(RequestId, "", "stop")]
       /\ out[Len(lines) + 1] = DoneSentinel

C19_Witness ==
    /\ cc_pc = "done"
    /\ lines = <<DataLine(JsonObject("entry", "object", "Hi", Absent)),
                 DataLine(JsonObject("absent", "absent", Absent, "World!")),
                 DoneLine>>
    /\ out = <<DataChunk(RequestId, "Hi", "none"), DataChunk(RequestId, "World!", "none"),
               DataChunk(RequestId, "", "stop"), DoneSentinel>>

\* C20: when the lines read are k lines carrying text and then [DONE], the
\* Anthropic events are message_start, content_block_start, k
\* content_block_delta events with the texts in the order of the lines,
\* content_block_stop, message_delta, message_stop, and no other event.
C20_AnthropicEvents ==
    (cc_pc = "done" /\ StreamHealthy /\ DoneRead
     /\ \A k \in 1..(Len(lines) - 1) : TextOf(lines[k]) # "")
    => /\ Len(events) = Len(lines) + 4
       /\ events[1].type = "message_start"
       /\ events[2].type = "content_block_start"
       /\ \A k \in 1..(Len(lines) - 1) :
             /\ events[k + 2].type = "content_block_delta"
             /\ events[k + 2].text = TextOf(lines[k])
       /\ events[Len(lines) + 2].type = "content_block_stop"
       /\ events[Len(lines) + 3].type = "message_delta"
       /\ events[Len(lines) + 4].type = "message_stop"

C20_Witness ==
    /\ cc_pc = "done"
    /\ lines = <<DataLine(JsonObject("entry", "object", "Hi", Absent)), DoneLine>>
    /\ Len(events) = 6
    /\ events[3] = ContentBlockDelta("Hi")
    /\ events[6] = MessageStop

\* The OpenAI framing: the terminal chunk and the sentinel, once, at the end.
OpenAIFramedOnce(seq) ==
    /\ Len(seq) >= 2
    /\ IsTerminal(seq[Len(seq) - 1])
    /\ seq[Len(seq)] = DoneSentinel
    /\ \A k \in 1..(Len(seq) - 2) : ~IsTerminal(seq[k]) /\ seq[k] # DoneSentinel

ClosingTypes == {"content_block_stop", "message_delta", "message_stop"}

\* The Anthropic framing: the three closing events, once, at the end.
AnthFramedOnce(seq) ==
    /\ Len(seq) >= 3
    /\ seq[Len(seq) - 2].type = "content_block_stop"
    /\ seq[Len(seq) - 1].type = "message_delta"
    /\ seq[Len(seq)].type = "message_stop"
    /\ \A k \in 1..(Len(seq) - 3) : seq[k].type \notin ClosingTypes

\* The Anthropic half of C21 alone.
AnthFramedWhenDone == (create_requests > 0 /\ cc_pc = "done") => AnthFramedOnce(events)

TypesOf(seq) == [k \in 1..Len(seq) |-> seq[k].type]

\* C22: when the stream ends normally and no line read carries text (no
\* line at all, [DONE] at once, or only comment, non-JSON and empty-content
\* lines), the OpenAI output is the final chunk and [DONE] alone and the
\* Anthropic output is the five envelope events without content_block_delta.
C22_ZeroContentStream ==
    (cc_pc = "done" /\ StreamHealthy /\ FragmentsOf(lines) = <<>>) =>
       /\ out = <<[prefix |-> "data: ", json |-> create_chat_completion_chunk(RequestId, "", "stop")],
                  DoneSentinel>>
       /\ TypesOf(events) = <<"message_start", "content_block_start", "content_block_stop",
                              "message_delta", "message_stop">>

C22_Witness ==
    /\ cc_pc = "done"
    /\ StreamHealthy
    /\ lines = <<Line(":", NoPayload),
                 DataLine(Payload("malformed", "absent", "absent", Absent, Absent)),
                 DataLine(JsonObject("entry", "object", Null, Absent))>>
    /\ Len(out) = 2
    /\ Len(events) = 5

\* The stream request failed in a way the retry policy covers.
StreamRequestTransient ==
    \/ stream_status >= 500
    \/ stream_requests > 0 /\ stream_status = 0 /\ cc_error \in {"ConnectError", "ReadTimeout"}

\* C29: no line is read from the body of a stream response with status 500
\* or more, and a dispatch that is over after its stream request got such a
\* status, a connect error or a read timeout has issued the stream request
\* max_retries times.
C29_StreamRequestRetried ==
    /\ stream_status >= 500 => lines = <<>>
    /\ (ChatEnded /\ StreamRequestTransient) => stream_requests = max_retries

\* The generator has yielded its closing events.
AnthClosed == cc_pc = "done" /\ Len(events) >= 5

\* output_tokens of the message_delta event.
StreamedUsage == events[Len(events) - 1].output_tokens

\* C30: once the Anthropic stream is closed, the output_tokens its
\* message_delta reports is what the non-streamed branch reports for the
\* same text, and for a text of 4 characters or more it is the number of
\* characters of the text divided by 4, rounded down.
C30_TokenEstimate ==
    AnthClosed =>
       /\ StreamedUsage = NonStreamedUsage(full_content)
       /\ Len(full_content) >= 4 => StreamedUsage = Len(full_content) \div 4

\* C33: the stream request is issued only after the create request was
\* answered with a 2xx status and a non-empty id; after a 2xx answer whose
\* id is missing or empty no stream request is issued and the output is the
\* one token-invalid event, the same output that follows a 401.
C33_StreamAfterCreate ==
    /\ (stream_requests > 0 \/ cc_pc \in {"stream", "lines"})
          => /\ create_status \in 200..299
             /\ create_requests > 0
             /\ chat_id \notin {"", Absent, Null}
    /\ (cc_pc = "done" /\ create_status \in 200..299 /\ chat_id \in {"", Absent} /\ cc_error = "none")
          => /\ stream_requests = 0
             /\ lines = <<>>
             /\ out = <<ErrorEvent("Token invalid or expired")>>
    /\ (cc_pc = "done" /\ create_status = 401)
          => out = <<ErrorEvent("Token invalid or expired")>>

\* The create request was answered 200 without a usable id and the
\* dispatch is over.
C33_Witness ==
    /\ cc_pc = "done"
    /\ create_status = 200
    /\ create_requests = 1
    /\ chat_id = ""
    /\ cc_error = "none"
    /\ stream_requests = 0
    /\ out = <<ErrorEvent("Token invalid or expired")>>

\* C35: with an empty token or an empty messages list chat_completion
\* issues no request, neither create nor stream, and once it has ended its
\* output is one error event: no chunk and no [DONE].
C35_ArgumentsRejected ==
    (cc_pc # "idle" /\ (cc_token = "" \/ cc_messages = "none"))
       => /\ cc_pc \in {"start", "done"}
          /\ rq_pc = "idle"
          /\ requests = 0
          /\ create_requests = 0
          /\ stream_requests = 0
          /\ cc_pc = "start" => out = <<>>
          /\ cc_pc = "done"
                => /\ Len(out) = 1
                   /\ out[1].json.kind = "error"
                   /\ out[1] = ErrorEvent(IF cc_token = "" THEN "No token provided"
                                          ELSE "No messages provided")

\* A call with a token and no messages has ended.
C35_Witness ==
    /\ cc_pc = "done"
    /\ cc_token = "tokA"
    /\ cc_messages = "none"
    /\ out = <<ErrorEvent("No messages provided")>>

\* The caller has gone away while the body was being read.
Disconnected == cc_error \in Interrupts

\* C32: the step in which the caller goes away, and every step after it,
\* reads no upstream line and adds nothing to the output; and once the
\* caller has gone away the upstream response gets closed.
C32_DisconnectStopsStream ==
    /\ [][(cc_error' \in Interrupts) => (lines' = lines /\ out' = out)]_vars
    /\ (Disconnected ~> ~StreamIsOpen)

\* The caller went away at the yield of a fragment, with lines still to be
\* read, and the response has been closed.
C32_Witness ==
    /\ cc_pc = "closed"
    /\ cc_error = "GeneratorExit"
    /\ Len(lines) = 2
    /\ out = <<DataChunk(RequestId, "Hi", "none")>>

(***************************************************************************)
(* Properties of the content extraction (SpecExtract).                     *)
(***************************************************************************)

\* What a content key holds when it is a string, or is missing.
StringOrAbsent == {Absent, "", "Hi", "World!"}

\* C18: for a parsed object the text is the content of the first choice's
\* delta when choices is non-empty (whatever the top-level content is),
\* else the top-level content, a missing key counting as ""; a non-empty
\* text is emitted as it is and an empty one emits nothing.
C18_ExtractionPriority ==
    (ex_pc = "done" /\ ex_payload.json = "object") =>
       /\ (/\ ex_payload.choices = "entry"
           /\ ex_payload.delta = "object"
           /\ ex_payload.dcontent \in StringOrAbsent)
          => ex_content = (IF ex_payload.dcontent = Absent THEN "" ELSE ex_payload.dcontent)
       /\ (ex_payload.choices = "entry" /\ ex_payload.delta = "absent") => ex_content = ""
       /\ (ex_payload.choices \in {"absent", "empty"} /\ ex_payload.content \in StringOrAbsent)
          => ex_content = (IF ex_payload.content = Absent THEN "" ELSE ex_payload.content)
       /\ ex_content \in {"Hi", "World!"} => ex_effect = ex_content
       /\ ex_content = "" => ex_effect = "skip"

C18_Witness ==
    /\ ex_pc = "done"
    /\ ex_payload = JsonObject("entry", "object", "Hi", "World!")
    /\ ex_content = "Hi"
    /\ ex_effect = "Hi"

(***************************************************************************)
(* Properties of the endpoints (SpecDispatch).                             *)
(***************************************************************************)

\* The handler has answered and the generator it started, if any, is over.
DispatchEnded ==
    /\ d_pc \in {"stream", "responded"}
    /\ cc_pc \in {"idle", "done", "raised"}

\* C13: when the create request of the selected credential was answered
\* with 401 and another active credential exists, the request does not end
\* before a different credential has been handed to the upstream call.
C13_NextCredentialAfter401 ==
    (/\ DispatchEnded
     /\ create_status = 401
     /\ \E r \in ActiveRows(accounts) : r.id # d_account.id)
    => \E k \in 1..Len(tried) : tried[k] # d_account.id

\* The OpenAI half of C23 alone.
OaAtMostThree == endpoint = "openai" => Len(tried) <= 3

\* C23: one request hands at most 3 credentials to the upstream call, on
\* either endpoint and whatever the number of active records, and once it
\* is over it has been answered with 200 (SUCCESS) or 503 (EXHAUSTED).
C23_AtMostThreeAttempts ==
    /\ Len(tried) <= 3
    /\ DispatchEnded => http_status \in {200, 503}

\* The log entries with the given status.
LogsWith(status) == SelectSeq(logs, LAMBDA e : e.status = status)

\* The response was handed to the caller with the credential d_account: its
\* row has one call more than when it was selected and the only SUCCESS
\* entry names it.
SuccessRecorded ==
    /\ \E r \in accounts : r.id = d_account.id /\ r.total_calls = d_account.total_calls + 1
    /\ LogsWith("SUCCESS") = <<LogEntry(d_account, "SUCCESS")>>

\* The OpenAI half of C24 alone.
OaSuccessRecorded == (endpoint = "openai" /\ http_status = 200) => SuccessRecorded

\* C24: whenever a request has been answered with 200, on either endpoint,
\* the winning credential's total_calls has been incremented by one and
\* exactly one SUCCESS log entry, naming it, has been written.
C24_SuccessRecorded == http_status = 200 => SuccessRecorded

\* The upstream call made with d_account failed in its create phase: the
\* credential was rejected (401), the answer was another 4xx, or the
\* request raised (retries exhausted or an error that is not retried).
CreateFailed ==
    /\ cc_pc = "done"
    /\ create_requests > 0
    /\ stream_requests = 0
    /\ create_status \in {401, 404} \/ cc_error # "none"

\* C25: when a request is over and its last upstream attempt failed, exactly
\* one ERROR entry names the attempted credential, no SUCCESS entry names
\* it and its total_calls is what it was when it was selected.
C25_FailureRecorded ==
    (DispatchEnded /\ CreateFailed) =>
       /\ SelectSeq(logs, LAMBDA e : e.account = d_account.id) = <<LogEntry(d_account, "ERROR")>>
       /\ \A r \in accounts : r.id = d_account.id => r.total_calls = d_account.total_calls

\* What a 503 answer leaves behind: no SUCCESS entry, no incremented
\* total_calls, no upstream call in progress.
NothingRecorded ==
    /\ LogsWith("SUCCESS") = <<>>
    /\ \A r \in accounts : r.total_calls = 0
    /\ cc_pc \in {"idle", "raised"}
    /\ rq_pc = "idle"

\* The part of C26 about the 503 answers the handlers do give.
UnavailableIsClean == http_status = 503 => NothingRecorded

\* C26: a request that is over without any credential found, or with its
\* last upstream attempt failed, has been answered with 503, and a request
\* answered with 503 has written no SUCCESS entry, incremented no
\* total_calls and has no upstream call running.
C26_UnavailableWhenAllFailed ==
    /\ (DispatchEnded /\ (tried = <<>> \/ CreateFailed)) => http_status = 503
    /\ http_status = 503 =>
          /\ LogsWith("SUCCESS") = <<>>
          /\ \A r \in accounts : r.total_calls = 0
          /\ cc_pc \notin {"start", "create", "stream", "lines"}

\* The upstream call failed after the stream request was answered.
FailedMidStream ==
    /\ cc_pc = "done"
    /\ stream_status # 0
    /\ cc_error # "none"

\* C27: a request that is over after a create-phase failure has been
\* answered with a clean 503, nothing streamed; one that is over after a
\* failure in mid-stream has, on the OpenAI endpoint, streamed an error
\* chunk followed by the terminal chunk and [DONE].
C27_TwoFailureShapes ==
    /\ (DispatchEnded /\ CreateFailed) => (http_status = 503 /\ out = <<>>)
    /\ (DispatchEnded /\ FailedMidStream /\ endpoint = "openai") =>
          /\ Len(out) >= 3
          /\ IsErrorChunk(out[Len(out) - 2])
          /\ IsTerminal(out[Len(out) - 1])
          /\ out[Len(out)] = DoneSentinel

\* The first part of C28 alone: a 404 answer is the last create request.
CreateNotRetriedOn4xx ==
    \A k \in 1..Len(seen) :
       seen[k] = Response(404) => (k = Len(seen) /\ requests = k /\ rq_pc = "returned")

\* C28: a 404 answer to the create request is the last create request made
\* with that credential; when the request is over, an ERROR entry names the
\* credential and, if another credential is active, a different credential
\* has been handed to the upstream call.
C28_PermanentErrorMovesOn ==
    /\ CreateNotRetriedOn4xx
    /\ (DispatchEnded /\ create_status = 404) =>
          /\ \E k \in 1..Len(logs) : logs[k] = LogEntry(d_account, "ERROR")
          /\ (\E r \in ActiveRows(accounts) : r.id # d_account.id)
             => \E k \in 1..Len(tried) : tried[k] # d_account.id


(***************************************************************************)
(* Properties of requests of both kinds over one pool (SpecMixed).         *)
(***************************************************************************)
\* the k smallest members of S, in ascending order
RECURSIVE Ascending(_, _)
Ascending(S, k) ==
    IF k = 0 \/ S = {} THEN <<>>
    ELSE <<MinOf(S)>> \o Ascending(S \ {MinOf(S)}, k - 1)

\* C36: a request on the Anthropic-style endpoint leaves the round-robin
\* cursor where it was and is handed the active records in ascending id
\* order from the smallest; with such requests in between, the cursor is
\* still the id the last OpenAI-style selection returned and each of those
\* selections returns the cyclic successor of the one before.
C36_AnthropicLeavesCursor ==
    /\ tried = Ascending(ActiveIds, Len(tried))
    /\ \A k \in 1..Len(d_list) : d_list[k].id = Ascending(ActiveIds, Len(d_list))[k]
    /\ hist # <<>> => last_used_account_id = hist[Len(hist)]
    /\ \A k \in 1..(Len(hist) - 1) : hist[k + 1] = CyclicSucc(ActiveIds, hist[k])

\* Two OpenAI-style selections returned 2 and then 3 while an
\* Anthropic-style request over the same three active records had been
\* handed records 1 and 2.
C36_Witness ==
    /\ hist = <<2, 3>>
    /\ tried = <<1, 2>>
    /\ ActiveIds = {1, 2, 3}
    /\ last_used_account_id = 3


(***************************************************************************)
(* Properties of the rate limiter (SpecLimit).                             *)
(***************************************************************************)
\* The admitted calls of key k whose time lies in the window of rl_window
\* seconds that ends at t, the start excluded.
AdmittedIn(k, t) ==
    {i \in 1..Len(rl_admitted[k]) : rl_admitted[k][i] > t - rl_window /\ rl_admitted[k][i] <= t}

\* C39: per key, no more than `requests` calls are admitted within any
\* window of `window` seconds (start excluded, end included) and no more
\* than `requests` timestamps are stored; a rejected call returns
\* remaining 0 and adds no timestamp; an admitted call adds its own time
\* and returns `requests` minus the number then stored; a call leaves the
\* timestamps of every other key as they were.
C39_SlidingWindow ==
    /\ \A k \in Keys : Len(rl_store[k]) <= rl_requests
    /\ \A k \in Keys : \A t \in 0..MaxTime : Cardinality(AdmittedIn(k, t)) <= rl_requests
    /\ rl_last.key # "" =>
          LET k == rl_last.key
              was == rl_last.before[k]
              is == rl_store[k]
          IN /\ rl_last.allowed
                   => /\ is # <<>>
                      /\ is[Len(is)] = rl_now
                      /\ Len(is) <= Len(was) + 1
                      /\ rl_last.remaining = rl_requests - Len(is)
                      /\ rl_last.remaining >= 0
             /\ ~rl_last.allowed
                   => /\ rl_last.remaining = 0
                      /\ Len(is) <= Len(was)
                      /\ Len(is) = rl_requests
                      /\ \A i \in 1..Len(is) : \E j \in 1..Len(was) : is[i] = was[j]
             /\ \A j \in Keys : j # k => rl_store[j] = rl_last.before[j]

\* With requests = 2 and window = 2, a key admitted at seconds 0, 1 and 2
\* is rejected on its next call while another key has a timestamp stored.
C39_Witness ==
    /\ rl_requests = 2
    /\ rl_window = 2
    /\ rl_last.key = "key:abc"
    /\ ~rl_last.allowed
    /\ rl_admitted["key:abc"] = <<0, 1, 2>>
    /\ rl_store["key:abc"] = <<1, 2>>
    /\ rl_store["ip:10.0.0.1"] # <<>>

(***************************************************************************)
(* Properties of the HTTP client manager (SpecClient).                     *)
(***************************************************************************)
\* What the calls do one by one, also with a close() suspended: get_client
\* returns a client that is open when it returns and builds one only when
\* the manager holds none or a closed one; the client a close() has closed
\* is not open and the manager holds none after it; a close() that finds
\* nothing to close closes nothing.
CallsDoTheirPart ==
    /\ (hc_last.op = "get_client" /\ hc_closing # hc_last.client) => hc_last.client \in hc_open
    /\ hc_last.op = "get_client" => hc_last.client # NoClient
    /\ hc_last.op = "close" => hc_last.client \notin hc_open
    /\ (hc_last.op = "close" /\ hc_closing = NoClient) => hc_client = NoClient

\* C40: at most one client is open at any time, an open client is the one
\* the manager holds (so get_client returns it and builds no other), and
\* when no close() is in progress the client the manager holds is open.
C40_OneOpenClient ==
    /\ Cardinality(hc_open) <= 1
    /\ \A c \in hc_open : hc_client = c
    /\ (hc_closing = NoClient /\ hc_client # NoClient) => hc_client \in hc_open
    /\ \A d, e \in Dispatches :
          (hc_held[d] \in hc_open /\ hc_held[e] \in hc_open) => hc_held[d] = hc_held[e]

=============================================================================
